---------------------------- MODULE Spec2Model ----------------------------
(***************************************************************************)
(* Token lifecycle, credential resolution and publish polling of the       *)
(* Instagram MCP server.  Two implementations of the token store and the   *)
(* resolver coexist in the repository and are modelled side by side:       *)
(*   client.py                 (class InstagramClient)    -> Client_*      *)
(*   instagram_mcp_server.py   (module-level functions)   -> Server_*      *)
(* Python dicts are functions whose DOMAIN is the set of keys present.     *)
(***************************************************************************)
EXTENDS Integers, Sequences, FiniteSets, TLC

VARIABLES
    fs,              \* token file: "missing" | "corrupt" | "ok" (and OtherFiles for load)
    fd,              \* the JSON object in the token file (EmptyDict unless fs = "ok")
    env,             \* os.environ, the variables the token code reads or writes
    oauth2,          \* OAUTH2_CLIENT_ID and OAUTH2_CLIENT_SECRET are both set
    now,             \* time.time(), in whole seconds
    last,            \* the last operation: its inputs, the state before it, its outcome
    poll,            \* the publish tool invocation in progress (PollState and its counters)
    threads          \* tool invocations running on two threads: position and locals of each

vars == <<fs, fd, env, oauth2, now, last, poll, threads>>
tokenVars == <<fs, fd, env, oauth2, now, last, threads>>

-----------------------------------------------------------------------------
(* Values *)

Unset == "<unset>"      \* an environment variable that is not set
None  == "<None>"       \* Python None / JSON null
Raise == "<raise>"      \* the call raised instead of returning

EmptyDict == [k \in {} |-> None]

\* dict.update
\* A save that truncates: the file is replaced by what is saved.
Update_Overwrite(a, b) == b

Update(a, b) == [k \in (DOMAIN a) \cup (DOMAIN b) |-> IF k \in DOMAIN b THEN b[k] ELSE a[k]]

\* d.get(k) for string-valued keys
Get(d, k) == IF k \in DOMAIN d THEN d[k] ELSE None

\* Python truthiness of a string-or-None value
Truthy(v) == v # None /\ v # ""

\* os.getenv(name)
Getenv(e, name) == IF e[name] = Unset THEN None ELSE e[name]

\* os.environ[name] = value
Setenv(e, name, value) == [e EXCEPT ![name] = value]

EnvNames == {"INSTAGRAM_ACCESS_TOKEN", "INSTAGRAM_OAUTH_ACCESS_TOKEN",
             "INSTAGRAM_OAUTH_REFRESH_TOKEN", "INSTAGRAM_PAGE_ACCESS_TOKEN",
             "FACEBOOK_PAGE_ID", "INSTAGRAM_GRAPH_API_VERSION"}

\* No tool invocation is running beside the one the action models.
NoThreads == <<>>

\* The part of the process state the token functions read and write.
World(f, d, e) == [fs |-> f, fd |-> d, env |-> e]

-----------------------------------------------------------------------------
(* Bounds *)

StartTime == 100000     \* time.time() when the process starts

\* The instants at which operations run, as offsets from StartTime: the start,
\* one second before and exactly at the 300 s buffer of a one-hour token saved
\* at the start (3600 - 300), and 400 s past that token's expiry.
Offsets == {0, 3299, 3300, 4000}

-----------------------------------------------------------------------------
(* Persistent token store *)

\* client.py InstagramClient._load_tokens / instagram_mcp_server.py _load_tokens:
\* a missing file or one that fails to parse gives {}.
Client_load_tokens(w) == IF w.fs = "ok" THEN w.fd ELSE EmptyDict

\* A load that never finds the file.
Server_load_tokens_Empty(w) == EmptyDict

Server_load_tokens(w) == IF w.fs = "ok" THEN w.fd ELSE EmptyDict

\* open(token_file, 'w') + json.dump: io = "ok" writes d; "open_fails" leaves the
\* file as it was; "write_fails" leaves a truncated file that no longer parses.
WriteFile(w, d, io) ==
    CASE io = "ok"          -> [w EXCEPT !.fs = "ok", !.fd = d]
      [] io = "open_fails"  -> w
      [] io = "write_fails" -> [w EXCEPT !.fs = "corrupt", !.fd = EmptyDict]

IoOutcomes == {"ok", "open_fails", "write_fails"}

\* client.py InstagramClient._save_tokens: merge, stamp, write.  The stamp is
\* unconditional and an I/O error is not caught here.
Client_save_tokens(w, tokens, io, t) ==
    LET existing == Update(Update(Client_load_tokens(w), tokens),
                           [access_token_saved_at |-> t])
    IN  [w   |-> WriteFile(w, existing, io),
         exc |-> IF io = "ok" THEN "none" ELSE "IOError"]

\* The environment mirror at the end of the server's _save_tokens.  Assigning
\* None to os.environ raises TypeError; the assignments before it have happened.
MirrorEnv(e, tokens) ==
    LET e1 == IF "access_token" \in DOMAIN tokens
              THEN Setenv(e, "INSTAGRAM_OAUTH_ACCESS_TOKEN", tokens["access_token"]) ELSE e
        e2 == IF "refresh_token" \in DOMAIN tokens
              THEN Setenv(e1, "INSTAGRAM_OAUTH_REFRESH_TOKEN", tokens["refresh_token"]) ELSE e1
        badPage == "page_access_token" \in DOMAIN tokens /\ tokens["page_access_token"] = None
        e3 == IF "page_access_token" \in DOMAIN tokens /\ ~badPage
              THEN Setenv(e2, "INSTAGRAM_PAGE_ACCESS_TOKEN", tokens["page_access_token"]) ELSE e2
        badId == "facebook_page_id" \in DOMAIN tokens /\ tokens["facebook_page_id"] = None
        e4 == IF "facebook_page_id" \in DOMAIN tokens /\ ~badId
              THEN Setenv(e3, "FACEBOOK_PAGE_ID", tokens["facebook_page_id"]) ELSE e3
    IN  IF badPage THEN [env |-> e2, exc |-> "TypeError"]
        ELSE IF badId THEN [env |-> e3, exc |-> "TypeError"]
        ELSE [env |-> e4, exc |-> "none"]

\* instagram_mcp_server.py _save_tokens: merge, stamp only when access_token is
\* saved, write, mirror into the environment.  IOError is swallowed.
Server_save_tokens(w, tokens, io, t) ==
    LET merged   == Update(Server_load_tokens(w), tokens)
        existing == IF "access_token" \in DOMAIN tokens
                    THEN Update(merged, [access_token_saved_at |-> t])
                    ELSE merged
        written  == WriteFile(w, existing, io)
        mirror   == MirrorEnv(w.env, tokens)
    IN  IF io = "ok"
        THEN [w |-> [written EXCEPT !.env = mirror.env], exc |-> mirror.exc]
        ELSE [w |-> written, exc |-> "none"]

-----------------------------------------------------------------------------
(* Expiry *)

ClientBuffer == 300
ServerBuffer == 86400

\* client.py InstagramClient._is_token_expired: a missing, null or zero
\* expires_in or saved-at is "not expired".
Client_is_token_expired(w, t) ==
    LET stored_tokens == Client_load_tokens(w)
    IN  IF \/ "expires_in" \notin DOMAIN stored_tokens
           \/ stored_tokens["expires_in"] = 0
           \/ "access_token_saved_at" \notin DOMAIN stored_tokens
           \/ stored_tokens["access_token_saved_at"] = 0
        THEN FALSE
        ELSE t >= (stored_tokens["access_token_saved_at"] + stored_tokens["expires_in"])
                  - ClientBuffer

\* instagram_mcp_server.py _is_token_expired: expires within one day.
Server_is_token_expired(w, t) ==
    LET tokens == Server_load_tokens(w)
    IN  IF "access_token_saved_at" \notin DOMAIN tokens \/ "expires_in" \notin DOMAIN tokens
        THEN FALSE
        ELSE (tokens["access_token_saved_at"] + tokens["expires_in"]) - t < ServerBuffer

-----------------------------------------------------------------------------
(* Outbound calls: what the platform may answer *)

\* An HTTP answer: ok = FALSE is a transport error or a non-2xx status.
NoCall == [called |-> FALSE, ok |-> FALSE, body |-> EmptyDict]
Answer(ok, body) == [called |-> TRUE, ok |-> ok, body |-> body]

\* GET oauth/access_token?grant_type=fb_exchange_token
TokenAnswers ==
    { Answer(FALSE, EmptyDict),
      Answer(TRUE, EmptyDict),
      Answer(TRUE, [access_token |-> "B"]),
      Answer(TRUE, [access_token |-> "B", expires_in |-> 5184000]),
      Answer(TRUE, [access_token |-> "B", expires_in |-> 0]) }

\* GET me/accounts: the pages of the token's identity.  A page is a dict; the
\* nested instagram_business_account{id} is kept as the id itself.
PageAnswer(ok, pages) == [called |-> TRUE, ok |-> ok, pages |-> pages]
NoPageCall == [called |-> FALSE, ok |-> FALSE, pages |-> <<>>]

PageWithIg    == [id |-> "pg1", access_token |-> "X", instagram_business_account |-> "ig1"]
PageNoIg      == [id |-> "pg0", access_token |-> "X0"]
PageNoToken   == [id |-> "pg2", instagram_business_account |-> "ig1"]

PageAnswers ==
    { PageAnswer(FALSE, <<>>),
      PageAnswer(TRUE, <<>>),
      PageAnswer(TRUE, <<PageNoIg, PageWithIg>>),
      PageAnswer(TRUE, <<PageNoToken>>) }

-----------------------------------------------------------------------------
(* Page identity *)

NotFound == [found |-> FALSE, page_id |-> None, page_access_token |-> None,
             instagram_user_id |-> None]

\* A lookup that takes the last page with an Instagram account, not the first.
Server_get_page_access_token_from_user_token_Last(pa) ==
    LET pages  == pa.pages
        withIg == {i \in 1..Len(pages) : Truthy(Get(pages[i], "instagram_business_account"))}
        lastIg == CHOOSE i \in withIg : \A j \in withIg : j <= i
    IN  IF ~pa.ok \/ Len(pages) = 0 THEN NotFound
        ELSE IF withIg # {}
        THEN [found |-> TRUE,
              page_id |-> Get(pages[lastIg], "id"),
              page_access_token |-> Get(pages[lastIg], "access_token"),
              instagram_user_id |-> Get(pages[lastIg], "instagram_business_account")]
        ELSE [found |-> TRUE,
              page_id |-> Get(pages[1], "id"),
              page_access_token |-> Get(pages[1], "access_token"),
              instagram_user_id |-> None]

\* instagram_mcp_server.py _get_page_access_token_from_user_token
Server_get_page_access_token_from_user_token(pa) ==
    LET pages  == pa.pages
        withIg == {i \in 1..Len(pages) : Truthy(Get(pages[i], "instagram_business_account"))}
        first  == CHOOSE i \in withIg : \A j \in withIg : i <= j
    IN  IF ~pa.ok \/ Len(pages) = 0 THEN NotFound
        ELSE IF withIg # {}
        THEN [found |-> TRUE,
              page_id |-> Get(pages[first], "id"),
              page_access_token |-> Get(pages[first], "access_token"),
              instagram_user_id |-> Get(pages[first], "instagram_business_account")]
        ELSE [found |-> TRUE,
              page_id |-> Get(pages[1], "id"),
              page_access_token |-> Get(pages[1], "access_token"),
              instagram_user_id |-> None]

-----------------------------------------------------------------------------
(* Refresh *)

DefaultLongLived == 5184000

\* A refresh that lets its failure out to the resolver.
Client_refresh_token_Raises(w, configured, refresh_token, ta, io, t) ==
    [w |-> w, result |-> Raise, exc |-> "RequestException",
     ta |-> IF configured THEN ta ELSE NoCall, pa |-> NoPageCall, io |-> "none"]

\* client.py InstagramClient._refresh_token.  ta is the token endpoint's answer
\* and io the outcome of the file write; the result reports the ones consumed
\* (NoCall / "none" when the code never got there).  Every exception is caught
\* here; exc names the one that was.
Client_refresh_token(w, configured, refresh_token, ta, io, t) ==
    IF ~configured
    THEN [w |-> w, result |-> None, exc |-> "none", ta |-> NoCall, pa |-> NoPageCall, io |-> "none"]
    ELSE IF ~ta.ok \/ "access_token" \notin DOMAIN ta.body
    THEN [w |-> w, result |-> None, exc |-> "none", ta |-> ta, pa |-> NoPageCall, io |-> "none"]
    ELSE LET base == [access_token |-> ta.body["access_token"],
                      expires_in   |-> IF "expires_in" \in DOMAIN ta.body
                                       THEN ta.body["expires_in"] ELSE DefaultLongLived]
             existing == Client_load_tokens(w)
             tokens_to_save ==
                 IF Truthy(Get(existing, "refresh_token"))
                 THEN Update(base, [refresh_token |-> existing["refresh_token"]])
                 ELSE base
             saved == Client_save_tokens(w, tokens_to_save, io, t)
         IN  [w      |-> saved.w,
              result |-> IF saved.exc = "none" THEN ta.body["access_token"] ELSE None,
              exc    |-> saved.exc,
              ta     |-> ta,
              pa     |-> NoPageCall,
              io     |-> io]

\* instagram_mcp_server.py _refresh_oauth2_token.  Only a RequestException is
\* caught: a TypeError out of _save_tokens leaves through exc.
Server_refresh_oauth2_token(w, configured, refresh_token, ta, pa, io, t) ==
    IF ~configured
    THEN [w |-> w, result |-> None, exc |-> "none", ta |-> NoCall, pa |-> NoPageCall, io |-> "none"]
    ELSE IF ~ta.ok \/ "access_token" \notin DOMAIN ta.body
    THEN [w |-> w, result |-> None, exc |-> "none", ta |-> ta, pa |-> NoPageCall, io |-> "none"]
    ELSE LET existing_tokens == Server_load_tokens(w)
             t1 == [access_token |-> ta.body["access_token"]]
             t2 == IF "expires_in" \in DOMAIN ta.body
                   THEN Update(t1, [expires_in |-> ta.body["expires_in"]]) ELSE t1
             t3 == IF "refresh_token" \in DOMAIN ta.body
                   THEN Update(t2, [refresh_token |-> ta.body["refresh_token"]])
                   ELSE IF Truthy(Get(existing_tokens, "refresh_token"))
                   THEN Update(t2, [refresh_token |-> existing_tokens["refresh_token"]])
                   ELSE t2
             page_token_info == Server_get_page_access_token_from_user_token(pa)
             tokens_to_save ==
                 IF page_token_info.found
                 THEN Update(t3, [page_access_token |-> page_token_info.page_access_token,
                                  facebook_page_id  |-> page_token_info.page_id])
                 ELSE t3
             saved == Server_save_tokens(w, tokens_to_save, io, t)
             e1 == Setenv(saved.w.env, "INSTAGRAM_OAUTH_ACCESS_TOKEN", ta.body["access_token"])
             e2 == IF Truthy(Get(tokens_to_save, "page_access_token"))
                   THEN Setenv(e1, "INSTAGRAM_PAGE_ACCESS_TOKEN", tokens_to_save["page_access_token"])
                   ELSE e1
             e3 == IF Truthy(Get(tokens_to_save, "facebook_page_id"))
                   THEN Setenv(e2, "FACEBOOK_PAGE_ID", tokens_to_save["facebook_page_id"])
                   ELSE e2
         IN  IF saved.exc # "none"
             THEN [w |-> saved.w, result |-> None, exc |-> saved.exc,
                   ta |-> ta, pa |-> pa, io |-> io]
             ELSE [w |-> [saved.w EXCEPT !.env = e3], result |-> ta.body["access_token"],
                   exc |-> "none", ta |-> ta, pa |-> pa, io |-> io]

-----------------------------------------------------------------------------
(* Code exchange *)

ShortLivedDefault == 3600

\* POST oauth/access_token with the authorization code: what the platform may
\* answer.  "S" is a short-lived token.
CodeAnswers ==
    { Answer(FALSE, EmptyDict),
      Answer(TRUE, EmptyDict),
      Answer(TRUE, [access_token |-> "S"]),
      Answer(TRUE, [access_token |-> "S", expires_in |-> 5000]),
      Answer(TRUE, [access_token |-> "S", refresh_token |-> "R"]) }

\* d restricted to the keys of ks it has
Only(d, ks) == [k \in (DOMAIN d) \cap ks |-> d[k]]

\* token_data after "Step 2", the exchange of the short-lived token for a
\* long-lived one (la is that call's answer; any failure of it is caught).
Exchange_token_data(ca, la) ==
    LET token_data == ca.body
    IN  IF ~Truthy(Get(token_data, "access_token")) THEN token_data
        ELSE IF ~la.ok
        THEN IF "expires_in" \in DOMAIN token_data THEN token_data
             ELSE Update(token_data, [expires_in |-> ShortLivedDefault])
        ELSE Update(Update(token_data, Only(la.body, {"access_token"})),
                    [expires_in |-> IF "expires_in" \in DOMAIN la.body
                                    THEN la.body["expires_in"] ELSE DefaultLongLived])

\* The first save: access_token, refresh_token and expires_in, with the two
\* tokens put into the environment first.
Exchange_first_save(w, token_data, io, t) ==
    LET tokens_to_save == Only(token_data, {"access_token", "refresh_token", "expires_in"})
        e1 == IF "access_token" \in DOMAIN token_data
              THEN Setenv(w.env, "INSTAGRAM_OAUTH_ACCESS_TOKEN", token_data["access_token"])
              ELSE w.env
        e2 == IF "refresh_token" \in DOMAIN token_data
              THEN Setenv(e1, "INSTAGRAM_OAUTH_REFRESH_TOKEN", token_data["refresh_token"])
              ELSE e1
    IN  IF tokens_to_save = EmptyDict THEN [w EXCEPT !.env = e2]
        ELSE Server_save_tokens([w EXCEPT !.env = e2], tokens_to_save, io, t).w

\* "Try to get Page Access Token automatically": the page lookup and the second
\* save, whose exceptions are caught.
Exchange_page_save(w, token_data, pa, io, t) ==
    LET page_token_info == Server_get_page_access_token_from_user_token(pa)
        tokens_to_save ==
            Update(Only(token_data, {"access_token", "refresh_token", "expires_in"}),
                   [page_access_token |-> page_token_info.page_access_token,
                    facebook_page_id  |-> page_token_info.page_id])
        e1 == IF Truthy(page_token_info.page_access_token)
              THEN Setenv(w.env, "INSTAGRAM_PAGE_ACCESS_TOKEN", page_token_info.page_access_token)
              ELSE w.env
        e2 == IF Truthy(page_token_info.page_id)
              THEN Setenv(e1, "FACEBOOK_PAGE_ID", page_token_info.page_id)
              ELSE e1
    IN  IF "access_token" \notin DOMAIN token_data \/ ~page_token_info.found THEN w
        ELSE Server_save_tokens([w EXCEPT !.env = e2], tokens_to_save, io, t).w

\* instagram_mcp_server.py _exchange_oauth2_code.  ca is the answer to the code
\* exchange, la to the long-lived exchange, pa to the page lookup; io1 and io2
\* are the outcomes of the two file writes.  result is the token_data returned.
Server_exchange_oauth2_code(w, configured, ca, la, pa, io1, io2, t) ==
    IF ~configured THEN [w |-> w, result |-> EmptyDict, exc |-> "ValueError"]
    ELSE IF ~ca.ok THEN [w |-> w, result |-> EmptyDict, exc |-> "Exception"]
    ELSE [w |-> Exchange_page_save(
                    Exchange_first_save(w, Exchange_token_data(ca, la), io1, t),
                    Exchange_token_data(ca, la), pa, io2, t),
          result |-> Exchange_token_data(ca, la),
          exc |-> "none"]

-----------------------------------------------------------------------------
(* Credential resolver *)

ProviderToken == "P"
\* token_provider is None ("none"), or is registered and, when called, returns
\* credentials with an access_token, returns nothing usable, or raises.
ProviderOutcomes == {"none", "token", "empty", "raises"}

\* What a resolution did: the token returned (Raise when it raised), the world
\* after it, the outbound answers and file write it consumed, and the exception
\* the refresh attempt ended with, if any (the resolver catches it).  A refresh
\* gives a record of the same shape, whose result is None unless it got a token
\* and nothing raised.
Resolved(w, result, ta, pa, io, exc) ==
    [w |-> w, result |-> result, ta |-> ta, pa |-> pa, io |-> io, exc |-> exc]

\* A resolver that never looks at the direct variable.
Direct_token_Ignored(w) == None

\* A resolver that takes the legacy variable for the direct one.
Direct_token_Legacy(w) == Getenv(w.env, "INSTAGRAM_OAUTH_ACCESS_TOKEN")

\* direct_token = os.getenv("INSTAGRAM_ACCESS_TOKEN")
Direct_token(w) == Getenv(w.env, "INSTAGRAM_ACCESS_TOKEN")

\* client.py InstagramClient.get_access_token
Client_get_access_token(w, registered, prov, configured, ta, io, t) ==
    LET direct_token == Direct_token(w)
        stored_tokens == Client_load_tokens(w)
        stored_access_token == Get(stored_tokens, "access_token")
        refresh_token == IF Truthy(Get(stored_tokens, "refresh_token"))
                         THEN stored_tokens["refresh_token"] ELSE stored_access_token
        refreshed == Client_refresh_token(w, configured, refresh_token, ta, io, t)
        oauth_token == Getenv(w.env, "INSTAGRAM_OAUTH_ACCESS_TOKEN")
    IN  IF registered /\ prov = "token"
        THEN Resolved(w, ProviderToken, NoCall, NoPageCall, "none", "none")
        ELSE IF Truthy(direct_token)
        THEN Resolved(w, direct_token, NoCall, NoPageCall, "none", "none")
        ELSE IF Truthy(stored_access_token)
        THEN IF Client_is_token_expired(w, t)
             THEN [refreshed EXCEPT !.result = IF Truthy(@) THEN @ ELSE stored_access_token]
             ELSE Resolved(w, stored_access_token, NoCall, NoPageCall, "none", "none")
        ELSE IF Truthy(oauth_token)
        THEN Resolved(w, oauth_token, NoCall, NoPageCall, "none", "none")
        ELSE Resolved(w, Raise, NoCall, NoPageCall, "none", "none")

\* instagram_mcp_server.py get_access_token
Server_get_access_token(w, configured, ta, pa, io, t) ==
    LET direct_token == Direct_token(w)
        stored_tokens == Server_load_tokens(w)
        stored_access_token == Get(stored_tokens, "access_token")
        env_refresh == Getenv(w.env, "INSTAGRAM_OAUTH_REFRESH_TOKEN")
        refresh_token == IF Truthy(Get(stored_tokens, "refresh_token"))
                         THEN stored_tokens["refresh_token"] ELSE env_refresh
        refreshed == Server_refresh_oauth2_token(w, configured, refresh_token, ta, pa, io, t)
        oauth_token == Getenv(w.env, "INSTAGRAM_OAUTH_ACCESS_TOKEN")
        late == Server_refresh_oauth2_token(w, configured, env_refresh, ta, pa, io, t)
    IN  IF Truthy(direct_token)
        THEN Resolved(w, direct_token, NoCall, NoPageCall, "none", "none")
        ELSE IF Truthy(stored_access_token)
        THEN IF Server_is_token_expired(w, t) /\ Truthy(refresh_token) /\ configured
             THEN [refreshed EXCEPT !.result = IF Truthy(@) THEN @ ELSE stored_access_token]
             ELSE Resolved(w, stored_access_token, NoCall, NoPageCall, "none", "none")
        ELSE IF Truthy(oauth_token)
        THEN Resolved(w, oauth_token, NoCall, NoPageCall, "none", "none")
        ELSE IF configured /\ Truthy(env_refresh)
        THEN [late EXCEPT !.result = IF Truthy(@) THEN @ ELSE Raise]
        ELSE Resolved(w, Raise, NoCall, NoPageCall, "none", "none")

-----------------------------------------------------------------------------
(* The token state machine *)

\* The partial records the code saves: the code exchange's token (with or
\* without a refresh token) and a page token.
Partials ==
    { [access_token |-> "A", expires_in |-> 3600],
      [access_token |-> "A", expires_in |-> 3600, refresh_token |-> "R"],
      [page_access_token |-> "X"] }

\* The environment a process starts with: the direct token, the legacy token
\* and the refresh token are each set by the operator or not.
InitEnvs ==
    { [n \in EnvNames |->
          CASE n = "INSTAGRAM_ACCESS_TOKEN"        -> d
            [] n = "INSTAGRAM_OAUTH_ACCESS_TOKEN"  -> l
            [] n = "INSTAGRAM_OAUTH_REFRESH_TOKEN" -> r
            [] OTHER                               -> Unset]
      : d \in {Unset, "D"}, l \in {Unset, "L"}, r \in {Unset, "R2"} }

NoEnv == [n \in EnvNames |-> Unset]

Fresh == World("missing", EmptyDict, NoEnv)

\* The token files an earlier run of the program leaves behind: none, one that
\* no longer parses, and what one save at StartTime by either store writes.
InitFiles ==
    {Fresh, [Fresh EXCEPT !.fs = "corrupt"]}
    \cup {Server_save_tokens(Fresh, p, "ok", StartTime).w : p \in Partials}
    \cup {Client_save_tokens(Fresh, p, "ok", StartTime).w : p \in Partials}

Op(op, impl, pre, tokens, prov, ta, pa, io, result, exc) ==
    [op |-> op, impl |-> impl, pre |-> pre, tokens |-> tokens, prov |-> prov,
     ta |-> ta, pa |-> pa, io |-> io, result |-> result, exc |-> exc]

Current == World(fs, fd, env)

-----------------------------------------------------------------------------
(* Async publish pollers *)

\* The four publish tools: the fixed-attempts poller (tools/publishing.py
\* create_post and the server's INSTAGRAM_CREATE_POST, the same loop twice) and
\* the wall-clock poller in its two versions.
Pollers == {"create_post", "INSTAGRAM_CREATE_POST",
            "post_ig_user_media_publish", "INSTAGRAM_POST_IG_USER_MEDIA_PUBLISH"}
FixedPollers == {"create_post", "INSTAGRAM_CREATE_POST"}
WallClockPollers == Pollers \ FixedPollers

Statuses == {"IN_PROGRESS", "FINISHED", "ERROR", "EXPIRED", "PUBLISHED", "UNKNOWN"}

\* Sleeps are counted in quarter seconds, so that 3 * 1.5 * 1.5 = 6.75 s is exact.
Q(seconds) == 4 * seconds

CreatePostMaxRetries == 15
HardCeiling == 45
DefaultPollInterval == 3
DefaultMaxRetries == 15

\* retry_delay = 3, then retry_delay = min(retry_delay * 1.5, 10)
RetryDelay0 == Q(3)
NextRetryDelay(d) == IF (d * 3) \div 2 >= Q(10) THEN Q(10) ELSE (d * 3) \div 2

\* An optional integer argument the caller left out (None).
NotSupplied == -1

\* max_wait = min(max_wait_seconds or 45, 45); a None and a 0 both give 45
MaxWait(max_wait_seconds) ==
    LET given == IF max_wait_seconds \in {NotSupplied, 0}
                 THEN HardCeiling ELSE max_wait_seconds
    IN  IF given < HardCeiling THEN given ELSE HardCeiling

\* poll_interval = poll_interval_seconds or 3
PollInterval(poll_interval_seconds) ==
    IF poll_interval_seconds = 0 THEN DefaultPollInterval ELSE poll_interval_seconds

\* max_retries = max_wait // poll_interval if poll_interval > 0 else 15
MaxRetries(max_wait, poll_interval) ==
    IF poll_interval > 0 THEN max_wait \div poll_interval ELSE DefaultMaxRetries

\* The result envelope: error names the message the code builds.
Envelope(successful, error, message) ==
    [successful |-> successful, error |-> error, message |-> message]
NoResult == Envelope(FALSE, "-", "")

Idle ==
    [pk |-> "-", pc |-> "idle", attempt |-> 0,
     max_wait_seconds |-> NotSupplied, poll_interval_seconds |-> NotSupplied,
     max_wait |-> 0, poll_interval |-> 0,
     max_retries |-> 0, elapsed |-> 0, retry_delay |-> 0, slept |-> 0,
     statusCalls |-> 0, publishCalls |-> 0, lastStatus |-> "-", allInProgress |-> TRUE,
     inProgressPrefix |-> 0, firstOther |-> "-", sawFinishedOrError |-> FALSE,
     raised |-> "-", result |-> NoResult]

\* The tool returns.
Return(p, envelope) == [p EXCEPT !.pc = "done", !.result = envelope]

\* A call raised: the tool's except clause builds the failure envelope.
Raised(p, where) ==
    Return([p EXCEPT !.raised = where],
           Envelope(FALSE, IF p.pk \in FixedPollers THEN "Failed to create post"
                           ELSE "Failed to publish media", ""))

\* A wall-clock poller that publishes when its loop runs out, as create_post does.
ToolsPublishExhausted_Publishes(p) == [p EXCEPT !.pc = "publish"]

\* tools/publishing.py post_ig_user_media_publish, the loop ran out.
ToolsPublishExhausted(p) == Return(p, Envelope(FALSE, "Timeout after", ""))

\* Entry of a tool up to its loop: the user id is resolved (that may raise) and
\* the loop bounds are computed.
Enter(pk, max_wait_seconds, poll_interval_seconds, uid_ok) ==
    LET max_wait == MaxWait(max_wait_seconds)
        poll_interval == PollInterval(poll_interval_seconds)
        max_retries == MaxRetries(max_wait, poll_interval)
        p == [Idle EXCEPT !.pk = pk]
        q == [p EXCEPT !.pc = "loop", !.max_wait = max_wait, !.poll_interval = poll_interval,
                       !.max_retries = max_retries]
    IN  IF ~uid_ok THEN Raised(p, "enter")
        ELSE IF pk \in FixedPollers
        THEN [p EXCEPT !.pc = "loop", !.max_retries = CreatePostMaxRetries,
                       !.retry_delay = RetryDelay0]
        ELSE IF max_retries > 0 THEN q
        ELSE IF pk = "post_ig_user_media_publish" THEN ToolsPublishExhausted(q)
        ELSE [q EXCEPT !.pc = "final"]

\* A status answer was received: the counters every poller's claim reads.
Received(p, status_code, took) ==
    [p EXCEPT !.statusCalls = @ + 1,
              !.elapsed = @ + took,
              !.lastStatus = status_code,
              !.allInProgress = @ /\ status_code = "IN_PROGRESS",
              !.inProgressPrefix = IF p.allInProgress /\ status_code = "IN_PROGRESS"
                                   THEN @ + 1 ELSE @,
              !.firstOther = IF p.allInProgress /\ status_code # "IN_PROGRESS"
                             THEN status_code ELSE @,
              !.sawFinishedOrError = @ \/ status_code \in {"FINISHED", "ERROR"}]

\* time.sleep(seconds) between two status checks
Sleep(p, quarters) == [p EXCEPT !.slept = @ + quarters, !.elapsed = @ + quarters \div 4]

\* A create_post that gives up when its attempts run out.
CreatePostTurn_GivesUp(p, ok, status_code, took) ==
    LET q == Received(p, status_code, took)
    IN  IF ~ok THEN Raised([p EXCEPT !.statusCalls = @ + 1], "status")
        ELSE IF status_code = "FINISHED" THEN [q EXCEPT !.pc = "publish"]
        ELSE IF status_code = "ERROR"
        THEN Return(q, Envelope(FALSE, "Media container processing failed", ""))
        ELSE IF q.attempt + 1 < q.max_retries
        THEN [Sleep(q, q.retry_delay) EXCEPT !.retry_delay = NextRetryDelay(q.retry_delay),
                                             !.attempt = @ + 1]
        ELSE Return([q EXCEPT !.attempt = @ + 1], Envelope(FALSE, "Timeout after", ""))

\* tools/publishing.py create_post, one turn of "for attempt in range(max_retries)":
\* the status call, its dispatch, the sleep.  (INSTAGRAM_CREATE_POST is the same.)
CreatePostTurn(p, ok, status_code, took) ==
    LET q == Received(p, status_code, took)
    IN  IF ~ok THEN Raised([p EXCEPT !.statusCalls = @ + 1], "status")
        ELSE IF status_code = "FINISHED" THEN [q EXCEPT !.pc = "publish"]
        ELSE IF status_code = "ERROR"
        THEN Return(q, Envelope(FALSE, "Media container processing failed", ""))
        ELSE LET slept == IF q.attempt < q.max_retries - 1
                          THEN [Sleep(q, q.retry_delay) EXCEPT
                                    !.retry_delay = NextRetryDelay(q.retry_delay)]
                          ELSE q
             IN  [slept EXCEPT !.attempt = @ + 1,
                               !.pc = IF q.attempt + 1 < q.max_retries THEN "loop" ELSE "publish"]

\* tools/publishing.py post_ig_user_media_publish, one turn of its loop.
ToolsPublishTurn(p, ok, status_code, took) ==
    LET q == Received(p, status_code, took)
        slept == Sleep(q, Q(q.poll_interval))
    IN  IF p.elapsed >= p.max_wait
        THEN Return(p, Envelope(FALSE, "did not finish processing within", ""))
        ELSE IF ~ok THEN Raised([p EXCEPT !.statusCalls = @ + 1], "status")
        ELSE IF status_code = "FINISHED" THEN [q EXCEPT !.pc = "publish"]
        ELSE IF status_code = "ERROR"
        THEN Return(q, Envelope(FALSE, "Media container failed processing", ""))
        ELSE IF status_code = "EXPIRED"
        THEN Return(q, Envelope(FALSE, "Media container has expired", ""))
        ELSE IF status_code = "PUBLISHED"
        THEN Return(q, Envelope(TRUE, "", "Media was already published"))
        ELSE IF q.attempt + 1 < q.max_retries THEN [slept EXCEPT !.attempt = @ + 1]
        ELSE ToolsPublishExhausted([slept EXCEPT !.attempt = @ + 1])

\* instagram_mcp_server.py INSTAGRAM_POST_IG_USER_MEDIA_PUBLISH, one turn of its loop.
ServerPublishTurn(p, ok, status_code, took) ==
    LET q == Received(p, status_code, took)
        slept == IF q.attempt < q.max_retries - 1 THEN Sleep(q, Q(q.poll_interval)) ELSE q
    IN  IF p.elapsed >= p.max_wait
        THEN Return(p, Envelope(FALSE, "did not finish processing within", ""))
        ELSE IF ~ok THEN Raised([p EXCEPT !.statusCalls = @ + 1], "status")
        ELSE IF status_code = "FINISHED" THEN [q EXCEPT !.pc = "final"]
        ELSE IF status_code = "ERROR"
        THEN Return(q, Envelope(FALSE, "processing failed with ERROR status", ""))
        ELSE [slept EXCEPT !.attempt = @ + 1,
                           !.pc = IF q.attempt + 1 < q.max_retries THEN "loop" ELSE "final"]

\* A final check that goes on to publish whatever status it reads.
ServerPublishFinalCheck_Ignored(p, ok, status_code, took) ==
    IF ~ok THEN Raised([p EXCEPT !.statusCalls = @ + 1], "status")
    ELSE [Received(p, status_code, took) EXCEPT !.pc = "publish"]

\* instagram_mcp_server.py INSTAGRAM_POST_IG_USER_MEDIA_PUBLISH, "Final status
\* check": one more status call after the loop, whatever ended the loop.
ServerPublishFinalCheck(p, ok, status_code, took) ==
    LET q == Received(p, status_code, took)
    IN  IF ~ok THEN Raised([p EXCEPT !.statusCalls = @ + 1], "status")
        ELSE IF status_code # "FINISHED"
        THEN Return(q, Envelope(FALSE, "status is '" \o status_code \o "', not FINISHED", ""))
        ELSE [q EXCEPT !.pc = "publish"]

\* The media_publish call and the return that follows it, in every tool.
PublishCall(p, ok) ==
    LET q == [p EXCEPT !.publishCalls = @ + 1]
    IN  IF ok THEN Return(q, Envelope(TRUE, "", "")) ELSE Raised(q, "publish")

\* A process starts at one of the instants, over a token file of an earlier run.
Init ==
    /\ \E f \in InitFiles : fs = f.fs /\ fd = f.fd
    /\ env \in InitEnvs
    /\ oauth2 \in BOOLEAN
    /\ now \in {StartTime + o : o \in Offsets}
    /\ last = Op("start", "-", Fresh, EmptyDict, "-", NoCall, NoPageCall, "none", None, "none")
    /\ poll = Idle
    /\ threads = NoThreads

\* A fresh installation: no token file, nothing in the environment.
InitStore ==
    /\ fs = "missing"
    /\ fd = EmptyDict
    /\ env = NoEnv
    /\ oauth2 = FALSE
    /\ now = StartTime
    /\ last = Op("start", "-", Fresh, EmptyDict, "-", NoCall, NoPageCall, "none", None, "none")
    /\ poll = Idle
    /\ threads = NoThreads

Install(w) ==
    /\ fs' = w.fs
    /\ fd' = w.fd
    /\ env' = w.env

\* An answer is drawn only for a call that is made: whether the resolver reaches
\* the token endpoint is asked of the resolver itself, with a failing answer.
HasToken(ta) == ta.called /\ ta.ok /\ "access_token" \in DOMAIN ta.body
TokenAnswersIf(called) == IF called THEN TokenAnswers ELSE {NoCall}
PageAnswersIf(ta) == IF HasToken(ta) THEN PageAnswers ELSE {NoPageCall}
IoOutcomesIf(ta) == IF HasToken(ta) THEN IoOutcomes ELSE {"none"}

ClientGetAccessToken ==
    \E prov \in ProviderOutcomes :
        LET probe == Client_get_access_token(Current, prov # "none", prov, oauth2,
                                             Answer(FALSE, EmptyDict), "none", now)
        IN  \E ta \in TokenAnswersIf(probe.ta.called) :
            \E io \in IoOutcomesIf(ta) :
                \E r \in {Client_get_access_token(Current, prov # "none", prov, oauth2,
                                                    ta, io, now)} :
                    /\ Install(r.w)
                    /\ last' = Op("get_access_token", "client", Current, EmptyDict, prov,
                                  r.ta, r.pa, r.io, r.result, r.exc)
                    /\ UNCHANGED <<oauth2, now, poll, threads>>

ServerGetAccessToken ==
    LET probe == Server_get_access_token(Current, oauth2, Answer(FALSE, EmptyDict),
                                         NoPageCall, "none", now)
    IN  \E ta \in TokenAnswersIf(probe.ta.called) :
        \E pa \in PageAnswersIf(ta), io \in IoOutcomesIf(ta) :
            \E r \in {Server_get_access_token(Current, oauth2, ta, pa, io, now)} :
                /\ Install(r.w)
                /\ last' = Op("get_access_token", "server", Current, EmptyDict, "-",
                              r.ta, r.pa, r.io, r.result, r.exc)
                /\ UNCHANGED <<oauth2, now, poll, threads>>

ClientSaveTokens ==
    \E tokens \in Partials, io \in IoOutcomes :
        \E r \in {Client_save_tokens(Current, tokens, io, now)} :
            /\ Install(r.w)
            /\ last' = Op("save_tokens", "client", Current, tokens, "-",
                          NoCall, NoPageCall, io, None, r.exc)
            /\ UNCHANGED <<oauth2, now, poll, threads>>

ServerSaveTokens ==
    \E tokens \in Partials, io \in IoOutcomes :
        \E r \in {Server_save_tokens(Current, tokens, io, now)} :
            /\ Install(r.w)
            /\ last' = Op("save_tokens", "server", Current, tokens, "-",
                          NoCall, NoPageCall, io, None, r.exc)
            /\ UNCHANGED <<oauth2, now, poll, threads>>

\* _exchange_oauth2_code is called with an authorization code.  Answers are
\* drawn for the calls it makes: the long-lived exchange when the code's answer
\* has a token, the page lookup likewise, a write when there is something to save.
ExchangeCode ==
    /\ \E ca \in (IF oauth2 THEN CodeAnswers ELSE {NoCall}) :
       \E la \in (IF ca.ok /\ Truthy(Get(ca.body, "access_token"))
                  THEN TokenAnswers ELSE {NoCall}) :
       \E pa \in (IF ca.ok /\ "access_token" \in DOMAIN ca.body
                  THEN PageAnswers ELSE {NoPageCall}) :
       \E io1 \in (IF ca.ok /\ ca.body # EmptyDict THEN IoOutcomes ELSE {"none"}) :
       \E io2 \in (IF pa.called /\ pa.ok /\ Len(pa.pages) > 0 THEN IoOutcomes ELSE {"none"}) :
       \E r \in {Server_exchange_oauth2_code(Current, oauth2, ca, la, pa, io1, io2, now)} :
           /\ Install(r.w)
           /\ last' = [op |-> "exchange_oauth2_code", impl |-> "server", pre |-> Current,
                       tokens |-> r.result, prov |-> "-", ta |-> la, pa |-> pa, io |-> io1,
                       result |-> None, exc |-> r.exc, ca |-> ca, io2 |-> io2]
           /\ UNCHANGED <<now, oauth2, poll, threads>>

\* A setup run exchanges the one code it received (oauth_setup.py).
ServerExchangeCode ==
    /\ last.op = "start"
    /\ ExchangeCode

\* time passes between two operations
Tick ==
    /\ \E o \in Offsets : StartTime + o > now /\ now' = StartTime + o
    /\ last' = Op("tick", "-", Current, EmptyDict, "-", NoCall, NoPageCall, "none", None, "none")
    /\ UNCHANGED <<fs, fd, env, oauth2, poll, threads>>

\* InstagramClient._is_token_expired called on the current store
ClientIsTokenExpired ==
    /\ last' = Op("is_token_expired", "client", Current, EmptyDict, "-", NoCall, NoPageCall,
                  "none", IF Client_is_token_expired(Current, now) THEN "True" ELSE "False",
                  "none")
    /\ UNCHANGED <<fs, fd, env, oauth2, now, poll, threads>>

-----------------------------------------------------------------------------
(* The publish tools as a state machine *)

\* What a caller may pass: max_wait_seconds (0 stands for None) and
\* poll_interval_seconds (0 stands for None).
MaxWaitInputs == {0, 6, 45, 100}
PollIntervalInputs == {0, 3, 50}

\* Seconds an outbound status call may take.
CallSeconds == {0, 1}

InitPoll ==
    /\ fs = "missing"
    /\ fd = EmptyDict
    /\ env = NoEnv
    /\ oauth2 = FALSE
    /\ now = StartTime
    /\ last = Op("start", "-", Fresh, EmptyDict, "-", NoCall, NoPageCall, "none", None, "none")
    /\ poll = Idle
    /\ threads = NoThreads

\* A publish tool is invoked.
Invoke ==
    /\ poll.pc \in {"idle", "done"}
    /\ \E pk \in Pollers, uid_ok \in BOOLEAN :
       \E mw \in (IF pk \in FixedPollers THEN {0} ELSE MaxWaitInputs),
          pi \in (IF pk \in FixedPollers THEN {0} ELSE PollIntervalInputs) :
           poll' = Enter(pk, mw, pi, uid_ok)
    /\ UNCHANGED tokenVars

\* One turn of the tool's polling loop.
StatusTurn ==
    /\ poll.pc = "loop"
    /\ \E ok \in BOOLEAN, took \in CallSeconds :
       \E status_code \in (IF ok THEN Statuses ELSE {"-"}) :
           poll' = CASE poll.pk \in FixedPollers
                          -> CreatePostTurn(poll, ok, status_code, took)
                     [] poll.pk = "post_ig_user_media_publish"
                          -> ToolsPublishTurn(poll, ok, status_code, took)
                     [] poll.pk = "INSTAGRAM_POST_IG_USER_MEDIA_PUBLISH"
                          -> ServerPublishTurn(poll, ok, status_code, took)
    /\ UNCHANGED tokenVars

\* The server tool's status check after its loop.
FinalStatusCheck ==
    /\ poll.pc = "final"
    /\ \E ok \in BOOLEAN, took \in CallSeconds :
       \E status_code \in (IF ok THEN Statuses ELSE {"-"}) :
           poll' = ServerPublishFinalCheck(poll, ok, status_code, took)
    /\ UNCHANGED tokenVars

\* The media_publish call.
Publish ==
    /\ poll.pc = "publish"
    /\ \E ok \in BOOLEAN : poll' = PublishCall(poll, ok)
    /\ UNCHANGED tokenVars

NextPoll ==
    \/ Invoke
    \/ StatusTurn
    \/ FinalStatusCheck
    \/ Publish

SpecPoll == InitPoll /\ [][NextPoll]_vars

\* The wall-clock pollers with the arguments as the caller gave them:
\* max_wait_seconds left out, 0, below the ceiling and above it;
\* poll_interval_seconds one that does not divide the budgets and one longer
\* than any budget.
BudgetMaxWaitInputs == {NotSupplied, 0, 6, 100}
BudgetPollIntervalInputs == {4, 50}

InvokeWallClock ==
    /\ poll.pc \in {"idle", "done"}
    /\ \E pk \in WallClockPollers, uid_ok \in BOOLEAN :
       \E mw \in BudgetMaxWaitInputs, pi \in BudgetPollIntervalInputs :
           poll' = [Enter(pk, mw, pi, uid_ok)
                       EXCEPT !.max_wait_seconds = mw, !.poll_interval_seconds = pi]
    /\ UNCHANGED tokenVars

NextBudget ==
    \/ InvokeWallClock
    \/ StatusTurn
    \/ FinalStatusCheck
    \/ Publish

SpecBudget == InitPoll /\ [][NextBudget]_vars

\* The credential resolver over a token file of an earlier run.
Next ==
    \/ ClientGetAccessToken
    \/ ServerGetAccessToken
    \/ ClientIsTokenExpired
    \/ Tick

Spec == Init /\ [][Next]_vars

\* The token store on its own, from a fresh installation.
NextStore ==
    \/ ClientSaveTokens
    \/ ServerSaveTokens
    \/ Tick

SpecStore == InitStore /\ [][NextStore]_vars

\* A setup run: it starts over the token file of an earlier run, with the
\* OAuth2 client id and secret configured or not, and exchanges its code.
InitExchange ==
    /\ \E f \in InitFiles : fs = f.fs /\ fd = f.fd
    /\ env \in InitEnvs
    /\ oauth2 \in BOOLEAN
    /\ now = StartTime + 4000
    /\ last = Op("start", "-", Fresh, EmptyDict, "-", NoCall, NoPageCall, "none", None, "none")
    /\ poll = Idle
    /\ threads = NoThreads

NextExchange == ServerExchangeCode

SpecExchange == InitExchange /\ [][NextExchange]_vars

-----------------------------------------------------------------------------
(* Messaging tools: the page token substituted into the token variables *)

\* What the conversations / messages endpoint answers.
Replies == {"fail", "empty", "data"}

\* The tool result: successful, error, and what data it carries.
ToolResult(successful, error, data) ==
    [successful |-> successful, error |-> error, data |-> data]

\* The last page of the answer whose id is page_id, 0 if there is none.
LastWithId(pages, page_id) ==
    LET hits == {i \in 1..Len(pages) : Get(pages[i], "id") = page_id}
    IN  IF hits = {} THEN 0 ELSE CHOOSE i \in hits : \A j \in hits : j <= i

\* The one element of a singleton set: The({e(x) : x \in {v}}) is e with x
\* standing for the value v.
The(S) == CHOOSE x \in S : TRUE

\* instagram_mcp_server.py make_api_request: the token is resolved by
\* get_access_token, then the request is sent.  A failing request raises
\* Exception; a resolver that finds no token raises ValueError before it.
Server_make_api_request(w, configured, ok, t) ==
    The({ [w |-> g.w, token |-> g.result,
           exc |-> IF g.result = Raise THEN "ValueError"
                   ELSE IF ~ok THEN "Exception" ELSE "none"]
          : g \in {Server_get_access_token(v, configured, NoCall, NoPageCall, "none", t)
                      : v \in {w}} })

\* instagram_mcp_server.py _get_page_for_ig_account: the stored binding, then
\* the environment's, then the two combined, then GET me/accounts (req).
Server_get_page_for_ig_account(w, configured, ig_user_id, pa, t) ==
    LET stored_tokens == Server_load_tokens(w)
        stored_page_token == Get(stored_tokens, "page_access_token")
        stored_page_id == Get(stored_tokens, "facebook_page_id")
        env_page_id == Getenv(w.env, "FACEBOOK_PAGE_ID")
        env_page_token == Getenv(w.env, "INSTAGRAM_PAGE_ACCESS_TOKEN")
        takeToken == ~Truthy(env_page_token) /\ Truthy(stored_page_token)
        takeId == ~Truthy(env_page_id) /\ Truthy(stored_page_id)
        page_access_token == IF takeToken THEN stored_page_token ELSE env_page_token
        page_id == IF takeId THEN stored_page_id ELSE env_page_id
        e1 == IF takeToken
              THEN Setenv(w.env, "INSTAGRAM_PAGE_ACCESS_TOKEN", stored_page_token) ELSE w.env
        e2 == IF takeId THEN Setenv(e1, "FACEBOOK_PAGE_ID", stored_page_id) ELSE e1
        pages == pa.pages
        mine == {i \in 1..Len(pages) :
                    Get(pages[i], "instagram_business_account") = ig_user_id}
        first == CHOOSE i \in mine : \A j \in mine : i <= j
        byId == LastWithId(pages, page_id)
    IN  IF Truthy(stored_page_token) /\ Truthy(stored_page_id)
        THEN [w |-> [w EXCEPT !.env = Setenv(Setenv(@, "INSTAGRAM_PAGE_ACCESS_TOKEN",
                                                    stored_page_token),
                                             "FACEBOOK_PAGE_ID", stored_page_id)],
              page_id |-> stored_page_id, page_access_token |-> stored_page_token,
              asked |-> FALSE]
        ELSE IF Truthy(env_page_token) /\ Truthy(env_page_id)
        THEN [w |-> w, page_id |-> env_page_id, page_access_token |-> env_page_token,
              asked |-> FALSE]
        ELSE IF Truthy(page_access_token) /\ Truthy(page_id)
        THEN [w |-> [w EXCEPT !.env = e2], page_id |-> page_id,
              page_access_token |-> page_access_token, asked |-> FALSE]
        ELSE The({
            IF req.exc # "none"
            THEN [w |-> req.w, page_id |-> page_id, page_access_token |-> page_access_token,
                  asked |-> req.exc = "Exception"]
            ELSE IF mine # {}
            THEN [w |-> req.w, page_id |-> Get(pages[first], "id"),
                  page_access_token |-> Get(pages[first], "access_token"), asked |-> TRUE]
            ELSE IF Truthy(page_id) /\ byId > 0
            THEN [w |-> req.w, page_id |-> page_id,
                  page_access_token |-> Get(pages[byId], "access_token"), asked |-> TRUE]
            ELSE [w |-> req.w, page_id |-> page_id, page_access_token |-> page_access_token,
                  asked |-> TRUE]
            : req \in {Server_make_api_request([w EXCEPT !.env = e2], configured, pa.ok, t)} })

\* What a messaging tool did: the world after it, its result, the token its
\* request carried (None when no request was sent), and whether it asked
\* GET me/accounts for the page binding.
Told(w, result, sent, asked) == [w |-> w, result |-> result, sent |-> sent, asked |-> asked]

\* finally: if original: os.environ[name] = original
\*          elif name in os.environ [and cond]: del os.environ[name]
RestoreOrDelete(e, name, original, cond) ==
    IF Truthy(original) THEN Setenv(e, name, original)
    ELSE IF e[name] # Unset /\ cond THEN Setenv(e, name, Unset)
    ELSE e

\* tools/messaging.py list_all_conversations; page_info is what
\* get_page_for_ig_account gives, called only for a binding that is incomplete
\* (detect); req is the conversations request under the substituted token.
Tools_list_all_conversations(w, configured, page_info, reply, t) ==
    LET stored_tokens == Server_load_tokens(w)
        token0 == IF Truthy(Get(stored_tokens, "page_access_token"))
                  THEN stored_tokens["page_access_token"]
                  ELSE Getenv(w.env, "INSTAGRAM_PAGE_ACCESS_TOKEN")
        id0 == IF Truthy(Get(stored_tokens, "facebook_page_id"))
               THEN stored_tokens["facebook_page_id"]
               ELSE Getenv(w.env, "FACEBOOK_PAGE_ID")
        detect == ~Truthy(token0) \/ ~Truthy(id0)
        w1 == IF detect THEN page_info.w ELSE w
        page_token == IF detect /\ ~Truthy(token0) THEN page_info.page_access_token ELSE token0
        page_id == IF detect /\ ~Truthy(id0) THEN page_info.page_id ELSE id0
        original_token == Getenv(w1.env, "INSTAGRAM_ACCESS_TOKEN")
        asked == detect /\ page_info.asked
    IN  IF ~Truthy(page_token)
        THEN Told(w1, ToolResult(FALSE, "Page Access Token is required.", "none"), None, asked)
        ELSE IF ~Truthy(page_id)
        THEN Told(w1, ToolResult(FALSE, "Facebook Page ID not found.", "none"), None, asked)
        ELSE The({
            Told([req.w EXCEPT !.env = RestoreOrDelete(@, "INSTAGRAM_ACCESS_TOKEN",
                                                       original_token, TRUE)],
                 IF req.exc # "none"
                 THEN ToolResult(FALSE, "Failed to list conversations", "none")
                 ELSE IF reply = "empty"
                 THEN ToolResult(TRUE, "No conversations found.", "empty")
                 ELSE ToolResult(TRUE, "", "data"),
                 req.token, asked)
            : req \in {Server_make_api_request(
                           [w1 EXCEPT !.env = Setenv(@, "INSTAGRAM_ACCESS_TOKEN", page_token)],
                           configured, reply # "fail", t)} })

\* instagram_mcp_server.py INSTAGRAM_LIST_ALL_CONVERSATIONS: both token
\* variables are set to the page token for the request (req); the finally block
\* deletes a variable that was unset only if there is no page token.
Server_LIST_ALL_CONVERSATIONS(w, configured, page_info, reply, t) ==
    LET w1 == page_info.w
        page_access_token == page_info.page_access_token
        original_token == Getenv(w1.env, "INSTAGRAM_ACCESS_TOKEN")
        original_oauth_token == Getenv(w1.env, "INSTAGRAM_OAUTH_ACCESS_TOKEN")
        failed == ToolResult(FALSE, "Failed to list conversations", "none")
    IN  IF ~Truthy(page_info.page_id) \/ ~Truthy(page_access_token)
        THEN Told(w1, failed, None, page_info.asked)
        ELSE The({
            Told([req.w EXCEPT !.env =
                     RestoreOrDelete(
                         RestoreOrDelete(@, "INSTAGRAM_ACCESS_TOKEN", original_token,
                                         ~Truthy(page_access_token)),
                         "INSTAGRAM_OAUTH_ACCESS_TOKEN", original_oauth_token,
                         ~Truthy(page_access_token))],
                 IF req.exc # "none" THEN failed
                 ELSE IF reply = "empty"
                 THEN ToolResult(TRUE, "No conversations found.", "empty")
                 ELSE ToolResult(TRUE, "", "data"),
                 req.token, page_info.asked)
            : req \in {Server_make_api_request(
                           [w1 EXCEPT !.env = Setenv(Setenv(@, "INSTAGRAM_ACCESS_TOKEN",
                                                            page_access_token),
                                                     "INSTAGRAM_OAUTH_ACCESS_TOKEN",
                                                     page_access_token)],
                           configured, reply # "fail", t)} })

\* instagram_mcp_server.py INSTAGRAM_LIST_ALL_MESSAGES.  Without
\* graph_api_version the finally block assigns original_token back whatever it
\* is: assigning None to os.environ raises TypeError and changes nothing.
Server_LIST_ALL_MESSAGES(w, configured, graph_api_version, page_info, reply, t) ==
    LET w1 == page_info.w
        page_access_token == page_info.page_access_token
        original_token == IF Truthy(page_access_token)
                          THEN Getenv(w1.env, "INSTAGRAM_ACCESS_TOKEN") ELSE None
        typeError == ~graph_api_version /\ Truthy(page_access_token) /\ original_token = None
        failed == ToolResult(FALSE, "Failed to list messages", "none")
    IN  IF ~Truthy(page_info.page_id)
        THEN Told(w1, failed, None, page_info.asked)
        ELSE The({
            Told([req.w EXCEPT !.env =
                     IF graph_api_version
                     THEN RestoreOrDelete(@, "INSTAGRAM_ACCESS_TOKEN", original_token,
                                          Truthy(page_access_token))
                     ELSE IF Truthy(page_access_token) /\ ~typeError
                     THEN Setenv(@, "INSTAGRAM_ACCESS_TOKEN", original_token)
                     ELSE @],
                 IF req.exc # "none" \/ typeError THEN failed
                 ELSE ToolResult(TRUE, "", reply),
                 req.token, page_info.asked)
            : req \in {Server_make_api_request(
                           IF Truthy(page_access_token)
                           THEN [w1 EXCEPT !.env = Setenv(@, "INSTAGRAM_ACCESS_TOKEN",
                                                          page_access_token)]
                           ELSE w1,
                           configured, reply # "fail", t)} })

\* instagram_mcp_server.py INSTAGRAM_SEND_TEXT_MESSAGE: the page token goes
\* into INSTAGRAM_ACCESS_TOKEN if that is set and into the legacy variable
\* otherwise; the finally block restores only if one of the two was set.
Server_SEND_TEXT_MESSAGE(w, configured, page_info, reply, t) ==
    LET w1 == page_info.w
        page_access_token == page_info.page_access_token
        direct == Getenv(w1.env, "INSTAGRAM_ACCESS_TOKEN")
        original_oauth_token == Getenv(w1.env, "INSTAGRAM_OAUTH_ACCESS_TOKEN")
        original_token == IF Truthy(direct) THEN direct ELSE original_oauth_token
        name == IF w1.env["INSTAGRAM_ACCESS_TOKEN"] # Unset
                THEN "INSTAGRAM_ACCESS_TOKEN" ELSE "INSTAGRAM_OAUTH_ACCESS_TOKEN"
    IN  The({
            Told([req.w EXCEPT !.env =
                     IF Truthy(page_access_token) /\ Truthy(original_token)
                     THEN RestoreOrDelete(
                              IF @["INSTAGRAM_ACCESS_TOKEN"] # Unset
                              THEN Setenv(@, "INSTAGRAM_ACCESS_TOKEN", original_token)
                              ELSE @,
                              "INSTAGRAM_OAUTH_ACCESS_TOKEN", original_oauth_token, TRUE)
                     ELSE @],
                 IF req.exc # "none"
                 THEN ToolResult(FALSE, "Failed to send text message", "none")
                 ELSE ToolResult(TRUE, "", "data"),
                 req.token, page_info.asked)
            : req \in {Server_make_api_request(
                           IF Truthy(page_access_token)
                           THEN [w1 EXCEPT !.env = Setenv(@, name, page_access_token)]
                           ELSE w1,
                           configured, reply # "fail", t)} })

MessagingTools == {"list_all_conversations", "INSTAGRAM_LIST_ALL_CONVERSATIONS",
                   "INSTAGRAM_LIST_ALL_MESSAGES", "INSTAGRAM_SEND_TEXT_MESSAGE"}

\* One call of a messaging tool; page_info is what _get_page_for_ig_account
\* gives for the world w the tool is called in.
CallTool(tool, w, configured, graph_api_version, page_info, reply, t) ==
    CASE tool = "list_all_conversations" ->
             Tools_list_all_conversations(w, configured, page_info, reply, t)
      [] tool = "INSTAGRAM_LIST_ALL_CONVERSATIONS" ->
             Server_LIST_ALL_CONVERSATIONS(w, configured, page_info, reply, t)
      [] tool = "INSTAGRAM_LIST_ALL_MESSAGES" ->
             Server_LIST_ALL_MESSAGES(w, configured, graph_api_version, page_info, reply, t)
      [] tool = "INSTAGRAM_SEND_TEXT_MESSAGE" ->
             Server_SEND_TEXT_MESSAGE(w, configured, page_info, reply, t)

\* The page binding the code exchange's second save writes.
PageBinding == [page_access_token |-> "X", facebook_page_id |-> "pg1"]

\* A server process without OAuth2 client credentials (so the resolver never
\* refreshes), over the token file of an earlier run, with or without a page
\* binding in it; the operator set the direct token, the legacy token and the
\* page variables or did not.
MsgFiles ==
    LET base == {Fresh, [Fresh EXCEPT !.fs = "corrupt"],
                 Server_save_tokens(Fresh, [access_token |-> "A", expires_in |-> 3600],
                                    "ok", StartTime).w}
    IN  base \cup {Server_save_tokens(f, PageBinding, "ok", StartTime).w : f \in base}

MsgEnvs ==
    { [n \in EnvNames |->
          CASE n = "INSTAGRAM_ACCESS_TOKEN"       -> d
            [] n = "INSTAGRAM_OAUTH_ACCESS_TOKEN" -> l
            [] n = "FACEBOOK_PAGE_ID"             -> pg[1]
            [] n = "INSTAGRAM_PAGE_ACCESS_TOKEN"  -> pg[2]
            [] OTHER                              -> Unset]
      : d \in {Unset, "D"}, l \in {Unset, "L"},
        pg \in {<<Unset, Unset>>, <<"pg0", Unset>>, <<"pg0", "X0">>} }

InitMsg ==
    /\ \E f \in MsgFiles : fs = f.fs /\ fd = f.fd
    /\ env \in MsgEnvs
    /\ oauth2 = FALSE
    /\ now = StartTime
    /\ last = Op("start", "-", Fresh, EmptyDict, "-", NoCall, NoPageCall, "none", None, "none")
    /\ poll = Idle
    /\ threads = NoThreads

\* A messaging tool is called.  The Instagram user id is "ig1", passed by the
\* caller or set in INSTAGRAM_USER_ID, so _get_instagram_user_id returns it
\* without a request.  pa is what GET me/accounts answers and reply what the
\* messaging endpoint answers; each is recorded only if the tool asked.
CallMessagingTool ==
    \E tool \in MessagingTools, pa \in PageAnswers, reply \in Replies :
    \E graph_api_version \in (IF tool = "INSTAGRAM_LIST_ALL_MESSAGES"
                              THEN BOOLEAN ELSE {FALSE}) :
    \E page_info \in {Server_get_page_for_ig_account(Current, oauth2, "ig1", pa, now)} :
    \E r \in {CallTool(tool, Current, oauth2, graph_api_version, page_info, reply, now)} :
        /\ Install(r.w)
        /\ last' = [op |-> "messaging", impl |-> tool, pre |-> Current, tokens |-> EmptyDict,
                    prov |-> "-", ta |-> NoCall,
                    pa |-> IF r.asked THEN pa ELSE NoPageCall,
                    io |-> "none", result |-> r.result, exc |-> "none",
                    graph_api_version |-> graph_api_version,
                    reply |-> IF Truthy(r.sent) /\ r.sent # Raise THEN reply ELSE "none",
                    sent |-> r.sent]
        /\ UNCHANGED <<oauth2, now, poll, threads>>

NextMsg == CallMessagingTool

SpecMsg == InitMsg /\ [][NextMsg]_vars

-----------------------------------------------------------------------------
(* Loading the token file, whatever is in it *)

\* What a token file can be besides missing, torn ("corrupt": not JSON) and a
\* saved record ("ok"): a file open() fails on, bytes that are not text in the
\* default encoding, and JSON that is valid but not an object (here a list).
OtherFiles == {"unreadable", "undecodable", "not_object"}

\* What load returned: kind is the Python type of the value, value the record
\* when it is a dict.
Loaded(kind, value, exc) == [kind |-> kind, value |-> value, exc |-> exc]

\* client.py InstagramClient._load_tokens: every Exception of open() and
\* json.load() is caught; what json.load() returns is returned as it is.
Client_load(w) ==
    IF w.fs = "not_object" THEN Loaded("list", EmptyDict, "none")
    ELSE Loaded("dict", IF w.fs = "ok" THEN w.fd ELSE EmptyDict, "none")

\* instagram_mcp_server.py _load_tokens: only json.JSONDecodeError and IOError
\* are caught; UnicodeDecodeError is neither.
Server_load(w) ==
    IF w.fs = "not_object" THEN Loaded("list", EmptyDict, "none")
    ELSE IF w.fs = "undecodable" THEN Loaded("none", EmptyDict, "UnicodeDecodeError")
    ELSE Loaded("dict", IF w.fs = "ok" THEN w.fd ELSE EmptyDict, "none")

\* A process over any token file.
InitLoad ==
    /\ \E f \in InitFiles \cup {[Fresh EXCEPT !.fs = k] : k \in OtherFiles} :
           fs = f.fs /\ fd = f.fd
    /\ env \in InitEnvs
    /\ oauth2 \in BOOLEAN
    /\ now = StartTime
    /\ last = Op("start", "-", Fresh, EmptyDict, "-", NoCall, NoPageCall, "none", None, "none")
    /\ poll = Idle
    /\ threads = NoThreads

ClientLoadTokens ==
    /\ \E r \in {Client_load(Current)} :
           last' = Op("load_tokens", "client", Current, r.value, "-", NoCall, NoPageCall,
                      "none", r.kind, r.exc)
    /\ UNCHANGED <<fs, fd, env, oauth2, now, poll, threads>>

ServerLoadTokens ==
    /\ \E r \in {Server_load(Current)} :
           last' = Op("load_tokens", "server", Current, r.value, "-", NoCall, NoPageCall,
                      "none", r.kind, r.exc)
    /\ UNCHANGED <<fs, fd, env, oauth2, now, poll, threads>>

NextLoad ==
    \/ ClientLoadTokens
    \/ ServerLoadTokens

SpecLoad == InitLoad /\ [][NextLoad]_vars

-----------------------------------------------------------------------------
(* The server's expiry check around the one-day margin *)

\* The instants of a server process over a long-lived token saved at StartTime:
\* the start, and one second before, exactly at and one second after the point
\* one day before the token expires.
ExpiryOffsets ==
    {0, DefaultLongLived - ServerBuffer - 1, DefaultLongLived - ServerBuffer,
     DefaultLongLived - ServerBuffer + 1}

\* The token files an earlier run of the server leaves behind: none, a torn one,
\* a short-lived and a long-lived token, a token saved without expires_in, and
\* a page token alone (which gets no timestamp).
ExpiryFiles ==
    {Fresh, [Fresh EXCEPT !.fs = "corrupt"]}
    \cup {Server_save_tokens(Fresh, p, "ok", StartTime).w :
              p \in { [access_token |-> "A", expires_in |-> ShortLivedDefault],
                      [access_token |-> "A", expires_in |-> DefaultLongLived],
                      [access_token |-> "A"],
                      [page_access_token |-> "X"] }}

InitExpiry ==
    /\ \E f \in ExpiryFiles : fs = f.fs /\ fd = f.fd
    /\ env \in InitEnvs
    /\ oauth2 \in BOOLEAN
    /\ now \in {StartTime + o : o \in ExpiryOffsets}
    /\ last = Op("start", "-", Fresh, EmptyDict, "-", NoCall, NoPageCall, "none", None, "none")
    /\ poll = Idle
    /\ threads = NoThreads

\* instagram_mcp_server.py _is_token_expired called on the current store
ServerIsTokenExpired ==
    /\ last' = Op("is_token_expired", "server", Current, EmptyDict, "-", NoCall, NoPageCall,
                  "none", IF Server_is_token_expired(Current, now) THEN "True" ELSE "False",
                  "none")
    /\ UNCHANGED <<fs, fd, env, oauth2, now, poll, threads>>

NextExpiry == ServerIsTokenExpired

SpecExpiry == InitExpiry /\ [][NextExpiry]_vars

-----------------------------------------------------------------------------
(* Claims about the credential resolver and the token store *)

SavedAt == "access_token_saved_at"

\* The record the store held before the last operation, as load() gives it.
PreRecord == IF last.pre.fs = "ok" THEN last.pre.fd ELSE EmptyDict
Record == IF fs = "ok" THEN fd ELSE EmptyDict

IsGet == last.op = "get_access_token"
IsSave == last.op = "save_tokens"

PreDirect == last.pre.env["INSTAGRAM_ACCESS_TOKEN"]
PreLegacy == last.pre.env["INSTAGRAM_OAUTH_ACCESS_TOKEN"]
PreStoreHasToken == "access_token" \in DOMAIN PreRecord

\* The stored token was judged expired by the resolver that ran.
PreExpired ==
    IF last.impl = "client" THEN Client_is_token_expired(last.pre, now)
    ELSE Server_is_token_expired(last.pre, now)

\* The refresh succeeded: the token endpoint answered with an access_token and
\* nothing raised while the answer was handled.
RefreshSucceeded == HasToken(last.ta) /\ last.exc = "none"

\* C1: get_access_token returns the token of the highest-precedence available
\* source, provider > direct env > store > legacy env; from the store it is the
\* refreshed token if the stored one is expired and the refresh succeeds, the
\* stored token otherwise.  A provider that raises or returns nothing is skipped.
\* The server resolver has no provider and follows the order from direct env on.
C1_Precedence ==
    IsGet =>
        IF last.impl = "client" /\ last.prov = "token" THEN last.result = ProviderToken
        ELSE IF PreDirect # Unset THEN last.result = PreDirect
        ELSE IF PreStoreHasToken
        THEN IF PreExpired /\ RefreshSucceeded
             THEN last.result = last.ta.body["access_token"]
             ELSE last.result = PreRecord["access_token"]
        ELSE IF PreLegacy # Unset THEN last.result = PreLegacy
        ELSE TRUE

\* The provider raised, and resolution went on to the direct token although the
\* store holds an expired token and the legacy variable is set.
C1_Witness ==
    /\ IsGet /\ last.impl = "client" /\ last.prov = "raises"
    /\ PreDirect = "D" /\ PreLegacy = "L"
    /\ PreStoreHasToken /\ PreExpired
    /\ last.result = "D"

\* C2: with the store holding A, expires_in 3600, saved 4000 s ago, no
\* refresh_token, no provider or direct token, and a token endpoint that answers
\* {access_token: B, expires_in: 5184000}, get_access_token returns B and the
\* store then holds B, 5184000 and a saved-at timestamp of now.
C2_Scenario ==
    /\ IsGet
    /\ last.prov \in {"-", "none"}
    /\ PreDirect = Unset
    /\ last.pre.fs = "ok"
    /\ last.pre.fd = [access_token |-> "A", expires_in |-> 3600,
                      access_token_saved_at |-> now - 4000]
    /\ oauth2
    /\ last.ta \in {NoCall, Answer(TRUE, [access_token |-> "B", expires_in |-> 5184000])}
    /\ last.io \in {"none", "ok"}

C2_Outcome ==
    /\ last.result = "B"
    /\ fs = "ok"
    /\ "access_token" \in DOMAIN fd /\ fd["access_token"] = "B"
    /\ "expires_in" \in DOMAIN fd /\ fd["expires_in"] = 5184000
    /\ SavedAt \in DOMAIN fd /\ fd[SavedAt] = now

C2_RefreshWithAccessToken == C2_Scenario => C2_Outcome

\* C3: save(partial) merges: after a save that wrote the file, every field of
\* partial has partial's value and every other field of the record that was
\* there, the saved-at timestamp aside, has the value it had.
C3_Merge ==
    (IsSave /\ last.io = "ok") =>
        /\ fs = "ok"
        /\ \A k \in DOMAIN last.tokens : k \in DOMAIN fd /\ fd[k] = last.tokens[k]
        /\ \A k \in (DOMAIN PreRecord) \ (DOMAIN last.tokens \cup {SavedAt}) :
               k \in DOMAIN fd /\ fd[k] = PreRecord[k]

\* {page_access_token: X} was saved onto a store holding access_token A and
\* refresh_token R, and the store holds all three.
C3_Witness ==
    /\ IsSave /\ last.io = "ok"
    /\ last.tokens = [page_access_token |-> "X"]
    /\ "page_access_token" \notin DOMAIN PreRecord
    /\ {"access_token", "refresh_token"} \subseteq DOMAIN PreRecord
    /\ PreRecord["access_token"] = "A" /\ PreRecord["refresh_token"] = "R"
    /\ {"access_token", "refresh_token", "page_access_token"} \subseteq DOMAIN fd

\* C4: a save writes the saved-at timestamp if and only if the partial contains
\* access_token: a save without access_token leaves the timestamp as it was, and
\* a store without an access_token holds no timestamp.
C4_StampIffAccessToken ==
    /\ (IsSave /\ last.io = "ok") =>
          IF "access_token" \in DOMAIN last.tokens
          THEN SavedAt \in DOMAIN fd /\ fd[SavedAt] = now
          ELSE /\ (SavedAt \in DOMAIN fd) = (SavedAt \in DOMAIN PreRecord)
               /\ SavedAt \in DOMAIN fd => fd[SavedAt] = PreRecord[SavedAt]
    /\ SavedAt \in DOMAIN Record => "access_token" \in DOMAIN Record

\* C10: InstagramClient._is_token_expired is true if and only if saved_at = T and
\* expires_in = E are both in the store and now >= T + E - 300.
C10_ExpiryBoundary ==
    (last.op = "is_token_expired" /\ last.impl = "client") =>
        ( (last.result = "True") =
          ( /\ SavedAt \in DOMAIN PreRecord
            /\ "expires_in" \in DOMAIN PreRecord
            /\ now >= PreRecord[SavedAt] + PreRecord["expires_in"] - 300 ) )

-----------------------------------------------------------------------------
(* The publish tools' claims *)

StatusErrors ==
    {"Media container processing failed", "Media container failed processing",
     "processing failed with ERROR status", "status is 'ERROR', not FINISHED"}
TimeoutErrors ==
    {"did not finish processing within", "Timeout after",
     "status is 'IN_PROGRESS', not FINISHED"}
PollDone == poll.pc = "done"

\* The answers received so far are k times IN_PROGRESS, then FINISHED, with
\* k + 1 within the attempt limit.
FinishedAfterK ==
    /\ poll.firstOther = "FINISHED"
    /\ poll.inProgressPrefix + 1 <= poll.max_retries

\* C5: in every poller, when the status answers are k times IN_PROGRESS and
\* then FINISHED, exactly k + 1 status calls are made, then exactly one publish
\* call, and the tool returns success (the publish call not failing).
C5_FinishedDispatch ==
    FinishedAfterK =>
        /\ poll.statusCalls = poll.inProgressPrefix + 1
        /\ poll.publishCalls <= 1
        /\ PollDone => /\ poll.publishCalls = 1
                       /\ poll.result.successful \/ poll.raised = "publish"

\* C6: in every poller an ERROR or EXPIRED status answer ends the tool at once:
\* failure envelope, no publish call.
C6_ErrorExpiredFail ==
    poll.lastStatus \in {"ERROR", "EXPIRED"} =>
        /\ PollDone
        /\ ~poll.result.successful
        /\ poll.publishCalls = 0

\* A wall-clock poller returned having received nothing but IN_PROGRESS, no
\* call having raised.
OnlyInProgress ==
    /\ poll.pk \in WallClockPollers
    /\ PollDone
    /\ poll.allInProgress
    /\ poll.raised = "-"

\* C7: a wall-clock poller whose every status answer is IN_PROGRESS returns a
\* timeout failure, whose error is not the one of an ERROR status, and makes no
\* publish call.
C7_WallClockTimeout ==
    OnlyInProgress =>
        /\ ~poll.result.successful
        /\ poll.result.error \in TimeoutErrors
        /\ poll.result.error \notin StatusErrors
        /\ poll.publishCalls = 0

C7_Witness ==
    /\ OnlyInProgress
    /\ poll.statusCalls = 15
    /\ poll.pk = "post_ig_user_media_publish"
    /\ poll.result.error = "Timeout after"

\* A fixed-attempts poller that received neither FINISHED nor ERROR, no status
\* call having raised.
NeverFinishedNorError ==
    /\ poll.pk \in FixedPollers
    /\ ~poll.sawFinishedOrError
    /\ poll.raised \notin {"enter", "status"}

\* C8: a fixed-attempts poller that has seen neither FINISHED nor ERROR in 15
\* status calls makes no 16th, then makes exactly one publish call, and
\* returns whatever that call gives.
C8_FixedAttemptsPublish ==
    NeverFinishedNorError =>
        /\ poll.statusCalls <= 15
        /\ poll.pc = "loop" => poll.statusCalls < 15 /\ poll.publishCalls = 0
        /\ poll.pc = "publish" => poll.statusCalls = 15 /\ poll.publishCalls = 0
        /\ PollDone => /\ poll.statusCalls = 15
                       /\ poll.publishCalls = 1
                       /\ poll.result.successful = (poll.raised = "-")

C8_Witness ==
    /\ NeverFinishedNorError
    /\ PollDone
    /\ poll.statusCalls = 15
    /\ poll.publishCalls = 1
    /\ poll.result.successful
    /\ poll.lastStatus = "IN_PROGRESS"

\* C9: a wall-clock poller that receives PUBLISHED stops at once, makes no
\* publish call and returns success with a note that the media was already
\* published.
C9_PublishedStops ==
    (poll.pk \in WallClockPollers /\ poll.lastStatus = "PUBLISHED") =>
        /\ PollDone
        /\ poll.result.successful
        /\ poll.result.message = "Media was already published"
        /\ poll.publishCalls = 0


-----------------------------------------------------------------------------
(* Refresh and fallback claims *)

PreRefreshToken == Get(PreRecord, "refresh_token")

NoProviderToken == ~(last.impl = "client" /\ last.prov = "token")

\* The store held a token judged expired, the resolver got as far as the store,
\* and no refreshed token came out of the attempt.
StaleAndNotRefreshed ==
    /\ IsGet /\ NoProviderToken /\ PreDirect = Unset
    /\ PreStoreHasToken /\ PreExpired
    /\ ~RefreshSucceeded

\* C13: when the stored token is judged expired and the refresh fails,
\* get_access_token returns the stored token and does not raise; it raises only
\* when no source holds a token.
C13_StaleFallback ==
    /\ StaleAndNotRefreshed => last.result = PreRecord["access_token"]
    /\ (IsGet /\ last.result = Raise) =>
           /\ NoProviderToken
           /\ PreDirect = Unset
           /\ ~PreStoreHasToken
           /\ PreLegacy = Unset

\* The client's refresh call failed on the wire and the stale A came back.
C13_Witness ==
    /\ StaleAndNotRefreshed
    /\ last.impl = "client"
    /\ last.ta.called /\ ~last.ta.ok
    /\ last.result = "A"

IsExchange == last.op = "exchange_oauth2_code"

\* The code exchange gave a short-lived token and the long-lived exchange failed.
LongLivedFailed ==
    /\ IsExchange
    /\ last.ca.ok /\ Truthy(Get(last.ca.body, "access_token"))
    /\ last.ta.called /\ ~last.ta.ok

\* C12: when the code exchange succeeds and the long-lived exchange fails,
\* _exchange_oauth2_code does not raise and returns the short-lived access_token
\* with expires_in 3600, whatever the short-lived answer; the store, when
\* written, holds the same two values.
C12_ShortLivedFallback ==
    LongLivedFailed =>
        /\ last.exc = "none"
        /\ Get(last.tokens, "access_token") = last.ca.body["access_token"]
        /\ Get(last.tokens, "expires_in") = 3600
        /\ (last.io = "ok" /\ last.io2 \in {"none", "ok"}) =>
               /\ Get(Record, "access_token") = last.ca.body["access_token"]
               /\ Get(Record, "expires_in") = 3600


-----------------------------------------------------------------------------
(* Claims about the messaging tools *)

IsMessaging == last.op = "messaging"

\* C14: every result a messaging tool returns has a non-empty error when
\* successful is false and an empty error when successful is true, whatever
\* the endpoint answered, an empty conversation list included.
C14_EnvelopeInvariant ==
    IsMessaging =>
        /\ (~last.result.successful => last.result.error # "")
        /\ (last.result.successful => last.result.error = "")

\* C15: after a messaging tool returns, its request having succeeded or failed,
\* INSTAGRAM_ACCESS_TOKEN and INSTAGRAM_OAUTH_ACCESS_TOKEN have the values they
\* had before the call; a variable that was unset is unset again.
C15_TokenVariablesRestored ==
    IsMessaging =>
        /\ env["INSTAGRAM_ACCESS_TOKEN"] = last.pre.env["INSTAGRAM_ACCESS_TOKEN"]
        /\ env["INSTAGRAM_OAUTH_ACCESS_TOKEN"] = last.pre.env["INSTAGRAM_OAUTH_ACCESS_TOKEN"]


-----------------------------------------------------------------------------
(* Claims about loading and saving the token file *)

IsLoad == last.op = "load_tokens"

\* C16: load never raises; it returns the stored record when the token file
\* holds one, and an empty record when the file is missing, unreadable or
\* malformed (anything that is not a valid JSON object).
C16_LoadNeverFails ==
    IsLoad =>
        /\ last.exc = "none"
        /\ last.result = "dict"
        /\ last.tokens = (IF last.pre.fs = "ok" THEN last.pre.fd ELSE EmptyDict)


\* C17: an I/O error while the token file is written is swallowed by save and
\* not raised to its caller, in both store implementations.
C17_SaveNeverFails ==
    (IsSave /\ last.io # "ok") => last.exc = "none"


-----------------------------------------------------------------------------
(* Claims about the direct token and the expiry boundaries *)

\* C18: with INSTAGRAM_ACCESS_TOKEN set and no provider token, get_access_token
\* returns it whatever the store holds, an expired token included, calls neither
\* the token endpoint nor the page lookup, and leaves the token file and every
\* environment variable as they were; the direct token never gets into the store.
C18_DirectUnconditional ==
    /\ (IsGet /\ NoProviderToken /\ PreDirect # Unset) =>
           /\ last.result = PreDirect
           /\ ~last.ta.called /\ ~last.pa.called /\ last.io = "none"
           /\ Current = last.pre
    /\ \A k \in DOMAIN fd \cap {"access_token", "refresh_token", "page_access_token"} :
           fd[k] # "D"

\* The server resolver returned D over an expired stored token it had the
\* means to refresh.
C18_Witness ==
    /\ IsGet /\ last.impl = "server" /\ oauth2
    /\ PreDirect = "D"
    /\ PreStoreHasToken /\ PreExpired
    /\ Truthy(Get(PreRecord, "refresh_token"))
    /\ last.result = "D"


\* The CREATE_POST tool description: "Auto-retries up to ~45s".
CreatePostAdvertisedWait == 45

\* C19: in one invocation of the fixed-attempts poller (create_post,
\* INSTAGRAM_CREATE_POST) the delays slept between status checks add up to at
\* most 45 seconds, whatever the status responses.
C19_CreatePostWaitBound ==
    poll.pk \in FixedPollers => poll.slept <= Q(CreatePostAdvertisedWait)


\* C20: the server's _is_token_expired is true if and only if saved_at = T and
\* expires_in = E are both in the store and now >= T + E - 86400: true exactly
\* at T + E - 86400, false one second earlier and whenever a field is absent.
C20_ServerExpiryBoundary ==
    (last.op = "is_token_expired" /\ last.impl = "server") =>
        ( (last.result = "True") =
          ( /\ SavedAt \in DOMAIN PreRecord
            /\ "expires_in" \in DOMAIN PreRecord
            /\ now >= PreRecord[SavedAt] + PreRecord["expires_in"] - 86400 ) )


-----------------------------------------------------------------------------
(* Claims about a resolver that finds no token *)

\* No source holds a token: no provider token, neither token variable set, no
\* access_token in the store.
NoTokenAnywhere ==
    /\ IsGet /\ NoProviderToken
    /\ PreDirect = Unset /\ PreLegacy = Unset
    /\ ~PreStoreHasToken

\* C26: when no source holds a token, get_access_token raises the missing-token
\* error, makes no outbound request and changes neither the token file nor the
\* environment, whether or not OAuth2 client credentials and
\* INSTAGRAM_OAUTH_REFRESH_TOKEN are set.
C26_NoTokenNoCall ==
    NoTokenAnywhere =>
        /\ last.result = Raise
        /\ ~last.ta.called /\ ~last.pa.called
        /\ Current = last.pre


-----------------------------------------------------------------------------
(* Page lookups: which page of GET me/accounts becomes the binding *)

PageOther == [id |-> "pg3", access_token |-> "X3", instagram_business_account |-> "ig2"]

PagePool == {PageNoIg, PageWithIg, PageOther}

MaxPages == 2

\* GET me/accounts fails, or answers any list of up to MaxPages pages.
PageListAnswers ==
    {PageAnswer(FALSE, <<>>)}
    \cup {PageAnswer(TRUE, pages) : pages \in UNION {[1..n -> PagePool] : n \in 0..MaxPages}}

IgUserIds == {"ig1", "ig2"}

\* client.py make_api_request: get_access_token, then the request.
Client_make_api_request(w, configured, ok, t) ==
    The({ [w |-> g.w, token |-> g.result,
           exc |-> IF g.result = Raise THEN "RuntimeError"
                   ELSE IF ~ok THEN "Exception" ELSE "none"]
          : g \in {Client_get_access_token(v, FALSE, "none", configured, NoCall, "none", t)
                      : v \in {w}} })

\* Python's a or b
Or(a, b) == IF Truthy(a) THEN a ELSE b

\* client.py get_page_for_ig_account: the stored values, else the environment's;
\* if one is missing, GET me/accounts and the first page of this Instagram
\* account, which is saved.  Every exception of the lookup and of the save is
\* caught, after result was filled in.
Client_get_page_for_ig_account(w, configured, ig_user_id, pa, io, t) ==
    LET stored == Client_load_tokens(w)
        page_id == Or(Get(stored, "facebook_page_id"), Getenv(w.env, "FACEBOOK_PAGE_ID"))
        page_access_token == Or(Get(stored, "page_access_token"),
                                Getenv(w.env, "INSTAGRAM_PAGE_ACCESS_TOKEN"))
        pages == pa.pages
        mine == {i \in 1..Len(pages) :
                    Get(pages[i], "instagram_business_account") = ig_user_id}
        first == CHOOSE i \in mine : \A j \in mine : i <= j
    IN  IF Truthy(page_id) /\ Truthy(page_access_token)
        THEN [w |-> w, page_id |-> page_id, page_access_token |-> page_access_token,
              asked |-> FALSE, io |-> "none"]
        ELSE The({
            IF req.exc # "none" \/ mine = {}
            THEN [w |-> req.w, page_id |-> page_id, page_access_token |-> page_access_token,
                  asked |-> req.exc # "RuntimeError", io |-> "none"]
            ELSE [w |-> Client_save_tokens(
                            req.w,
                            [facebook_page_id  |-> Get(pages[first], "id"),
                             page_access_token |-> Get(pages[first], "access_token")],
                            io, t).w,
                  page_id |-> Get(pages[first], "id"),
                  page_access_token |-> Get(pages[first], "access_token"),
                  asked |-> TRUE, io |-> io]
            : req \in {Client_make_api_request(w, configured, pa.ok, t)} })

\* What a page lookup did.  target is the Instagram user id the lookup is for:
\* the argument of get_page_for_ig_account, and for the lookup after a code
\* exchange or a refresh, which takes no such argument, the account the
\* process is set up for.
PageOp(op, impl, pre, target, pa, io, result) ==
    [op |-> op, impl |-> impl, pre |-> pre, tokens |-> EmptyDict, prov |-> "-",
     ta |-> NoCall, pa |-> pa, io |-> io, result |-> result, exc |-> "none",
     target |-> target]

Binding(page_id, page_access_token) ==
    [page_id |-> page_id, page_access_token |-> page_access_token]

\* Token files for the page lookups: those of MsgFiles, written by either
\* store, and one with only the page id saved.
PageFiles ==
    LET base == {Fresh, [Fresh EXCEPT !.fs = "corrupt"],
                 Client_save_tokens(Fresh, [access_token |-> "A", expires_in |-> 3600],
                                    "ok", StartTime).w}
    IN  MsgFiles \cup base
        \cup {Client_save_tokens(f, [facebook_page_id |-> "pg1"], "ok", StartTime).w
                 : f \in base}

InitPage ==
    /\ \E f \in PageFiles : fs = f.fs /\ fd = f.fd
    /\ env \in MsgEnvs
    /\ oauth2 = FALSE
    /\ now = StartTime
    /\ last = Op("start", "-", Fresh, EmptyDict, "-", NoCall, NoPageCall, "none", None, "none")
    /\ poll = Idle
    /\ threads = NoThreads

\* One lookup is made in each starting state.
\* _get_page_access_token_from_user_token, as _exchange_oauth2_code and
\* _refresh_oauth2_token call it with the new user token.
ServerPageFromUserToken ==
    \E target \in IgUserIds, pa \in PageListAnswers :
    \E r \in {Server_get_page_access_token_from_user_token(pa)} :
        /\ last.op = "start"
        /\ last' = PageOp("page_from_user_token", "server", Current, target, pa, "none", r)
        /\ UNCHANGED <<fs, fd, env, oauth2, now, poll, threads>>

ServerGetPageForIgAccount ==
    \E ig_user_id \in IgUserIds, pa \in PageListAnswers :
    \E r \in {Server_get_page_for_ig_account(Current, oauth2, ig_user_id, pa, now)} :
        /\ last.op = "start"
        /\ Install(r.w)
        /\ last' = PageOp("get_page_for_ig_account", "server", Current, ig_user_id,
                          IF r.asked THEN pa ELSE NoPageCall, "none",
                          Binding(r.page_id, r.page_access_token))
        /\ UNCHANGED <<oauth2, now, poll, threads>>

ClientGetPageForIgAccount ==
    \E ig_user_id \in IgUserIds, pa \in PageListAnswers, io \in IoOutcomes :
    \E r \in {Client_get_page_for_ig_account(Current, oauth2, ig_user_id, pa, io, now)} :
        /\ last.op = "start"
        /\ Install(r.w)
        /\ last' = PageOp("get_page_for_ig_account", "client", Current, ig_user_id,
                          IF r.asked THEN pa ELSE NoPageCall, r.io,
                          Binding(r.page_id, r.page_access_token))
        /\ UNCHANGED <<oauth2, now, poll, threads>>

NextPage ==
    \/ ServerPageFromUserToken
    \/ ServerGetPageForIgAccount
    \/ ClientGetPageForIgAccount

SpecPage == InitPage /\ [][NextPage]_vars


-----------------------------------------------------------------------------
(* Claims about page lookups *)

IsPageFromUserToken == last.op = "page_from_user_token"
IsGetPage == last.op = "get_page_for_ig_account"

\* The page of the list at position i, as a lookup result.
PageAt(pages, i, instagram_user_id) ==
    [found |-> TRUE, page_id |-> Get(pages[i], "id"),
     page_access_token |-> Get(pages[i], "access_token"),
     instagram_user_id |-> instagram_user_id]

HasIg(page) == Get(page, "instagram_business_account") # None

\* C27: _get_page_access_token_from_user_token returns null when the request
\* fails or the page list is empty; otherwise the id, access token and Instagram
\* id of the first page in list order that has a connected Instagram account;
\* and when no page has one, the first page with instagram_user_id = null.
C27_PageSelection ==
    IsPageFromUserToken =>
        LET pages == last.pa.pages
        IN  /\ (~last.pa.ok \/ pages = <<>>) => last.result = NotFound
            /\ \A i \in 1..Len(pages) :
                  (HasIg(pages[i]) /\ \A j \in 1..(i - 1) : ~HasIg(pages[j]))
                  => last.result = PageAt(pages, i, pages[i].instagram_business_account)
            /\ (pages # <<>> /\ \A i \in 1..Len(pages) : ~HasIg(pages[i]))
                  => last.result = PageAt(pages, 1, None)

\* A page with an Instagram account that is second in the list, after a page
\* of another Instagram account, is passed over.
C27_Witness ==
    /\ IsPageFromUserToken
    /\ last.pa.pages = <<PageOther, PageWithIg>>
    /\ last.result.page_id = "pg3"
    /\ last.result.instagram_user_id = "ig2"


\* The pages of the answered list that belong to the target Instagram account.
TargetPages ==
    {i \in 1..Len(last.pa.pages) :
        Get(last.pa.pages[i], "instagram_business_account") = last.target}

\* C21: when the target Instagram user id is known and the page list has a page
\* connected to it, the lookup returns that page's id and access token, wherever
\* the page is in the list and whatever other pages are there; for
\* get_page_for_ig_account of either implementation and for the lookup made
\* after a code exchange and a refresh.
C21_TargetPageReturned ==
    ((IsPageFromUserToken \/ IsGetPage) /\ last.pa.called /\ last.pa.ok /\ TargetPages # {})
    => \E i \in TargetPages :
          /\ last.result.page_id = Get(last.pa.pages[i], "id")
          /\ last.result.page_access_token = Get(last.pa.pages[i], "access_token")


\* The lookup asked GET me/accounts and came back with a page id and a page
\* token; no write of the token file failed.
LiveLookupSucceeded ==
    /\ IsGetPage /\ last.pa.called /\ last.pa.ok
    /\ Truthy(last.result.page_id) /\ Truthy(last.result.page_access_token)
    /\ last.io \in {"none", "ok"}

\* The same lookup made again in the current state, GET me/accounts answering pa.
SameCallAgain(pa) ==
    IF last.impl = "server"
    THEN Server_get_page_for_ig_account(Current, oauth2, last.target, pa, now)
    ELSE Client_get_page_for_ig_account(Current, oauth2, last.target, pa, "ok", now)

\* C22: after a live lookup by get_page_for_ig_account / _get_page_for_ig_account
\* obtained the page id and the page token, the token file holds them as
\* facebook_page_id and page_access_token, and the same call made next returns
\* the same binding without a request.
C22_LiveLookupPersisted ==
    LiveLookupSucceeded =>
        /\ fs = "ok"
        /\ Get(fd, "facebook_page_id") = last.result.page_id
        /\ Get(fd, "page_access_token") = last.result.page_access_token
        /\ \A pa \in PageListAnswers :
              /\ ~SameCallAgain(pa).asked
              /\ SameCallAgain(pa).page_id = last.result.page_id
              /\ SameCallAgain(pa).page_access_token = last.result.page_access_token


-----------------------------------------------------------------------------
(* Claims about the token a messaging request carries *)

\* The resolver has a token to give in the state the tool was called in.
PreTokenAvailable ==
    Server_get_access_token(last.pre, oauth2, NoCall, NoPageCall, "none", now).result # Raise

\* What _get_page_for_ig_account gave the tool.
PrePageInfo == Server_get_page_for_ig_account(last.pre, oauth2, "ig1", last.pa, now)

\* C23: with an access token available and no page token from the store, the
\* environment or the live lookup, a conversation/messaging tool returns
\* successful = false and sends no request to the messaging endpoint.
C23_NoPageTokenNoRequest ==
    (IsMessaging /\ PreTokenAvailable /\ ~Truthy(PrePageInfo.page_access_token))
    => (~last.result.successful /\ last.sent = None)


\* The tool sent its request to the messaging endpoint.
RequestSent == IsMessaging /\ last.sent # None /\ last.sent # Raise

\* C30: when a conversation/messaging tool has resolved a non-empty page token
\* and sends its request, the access_token of the request is that page token,
\* for every token file and environment.
C30_RequestCarriesPageToken ==
    (RequestSent /\ Truthy(PrePageInfo.page_access_token))
    => last.sent = PrePageInfo.page_access_token


-----------------------------------------------------------------------------
(* Claims about the wall-clock budget *)

\* A wall-clock poller that got past _get_instagram_user_id.
WallClockEntered ==
    poll.pk \in WallClockPollers /\ poll.pc # "idle" /\ poll.raised # "enter"

\* min(max_wait_seconds, 45), and 45 when max_wait_seconds is left out
AdvertisedBudget ==
    IF poll.max_wait_seconds = NotSupplied \/ poll.max_wait_seconds > HardCeiling
    THEN HardCeiling ELSE poll.max_wait_seconds

\* The server tool makes one status call after its loop, the "final status check".
AfterLoopCalls ==
    IF poll.pk = "INSTAGRAM_POST_IG_USER_MEDIA_PUBLISH" /\ poll.pc \in {"publish", "done"}
    THEN 1 ELSE 0

\* C28: for every max_wait_seconds given and every poll_interval_seconds > 0
\* the wall-clock poller's budget is min(max_wait_seconds, 45), 45 when none is
\* given; its loop makes at most budget // poll_interval status polls; and the
\* delays slept between polls add up to no more than the budget.
C28_WallClockBudget ==
    (WallClockEntered /\ poll.poll_interval_seconds > 0)
    => /\ poll.max_wait = AdvertisedBudget
       /\ poll.statusCalls <= AdvertisedBudget \div poll.poll_interval_seconds + AfterLoopCalls
       /\ poll.slept <= Q(AdvertisedBudget)


-----------------------------------------------------------------------------
(* The Graph API version override of a tool call *)

\* graph_api_version: None when the caller leaves it out.
VersionArgs == {None, "v21.0"}

\* INSTAGRAM_GRAPH_API_VERSION as the operator set it, or unset.
VersionEnvs == {Unset, "v19.0"}

\* instagram_mcp_server.py INSTAGRAM_GET_CONVERSATION, and
\* INSTAGRAM_GET_CONVERSATIONS whose try/finally is the same: the page token
\* goes into both token variables and the override into
\* INSTAGRAM_GRAPH_API_VERSION; the finally block restores the three.
Server_GET_CONVERSATION(w, configured, graph_api_version, page_info, reply, t) ==
    LET w1 == page_info.w
        page_access_token == page_info.page_access_token
        original_token == Getenv(w1.env, "INSTAGRAM_ACCESS_TOKEN")
        original_oauth_token == Getenv(w1.env, "INSTAGRAM_OAUTH_ACCESS_TOKEN")
        original_version == Getenv(w1.env, "INSTAGRAM_GRAPH_API_VERSION")
        e1 == IF Truthy(graph_api_version)
              THEN Setenv(w1.env, "INSTAGRAM_GRAPH_API_VERSION", graph_api_version)
              ELSE w1.env
        failed == ToolResult(FALSE, "Failed to get conversation", "none")
    IN  IF ~Truthy(page_info.page_id) \/ ~Truthy(page_access_token)
        THEN Told(w1, failed, None, page_info.asked)
        ELSE The({
            Told([req.w EXCEPT !.env =
                     RestoreOrDelete(
                         RestoreOrDelete(
                             RestoreOrDelete(@, "INSTAGRAM_ACCESS_TOKEN", original_token, TRUE),
                             "INSTAGRAM_OAUTH_ACCESS_TOKEN", original_oauth_token, TRUE),
                         "INSTAGRAM_GRAPH_API_VERSION", original_version,
                         ~Truthy(graph_api_version))],
                 IF req.exc # "none" THEN failed ELSE ToolResult(TRUE, "", "data"),
                 req.token, page_info.asked)
            : req \in {Server_make_api_request(
                           [w1 EXCEPT !.env = Setenv(Setenv(e1, "INSTAGRAM_ACCESS_TOKEN",
                                                            page_access_token),
                                                     "INSTAGRAM_OAUTH_ACCESS_TOKEN",
                                                     page_access_token)],
                           configured, reply # "fail", t)} })

\* instagram_mcp_server.py INSTAGRAM_CREATE_POST: one request of the tool, the
\* status check of a turn or the media_publish, under the override.
Server_versioned_request(w, configured, graph_api_version, ok, t) ==
    LET original_version == Getenv(w.env, "INSTAGRAM_GRAPH_API_VERSION")
    IN  The({
            Told([req.w EXCEPT !.env =
                     IF Truthy(graph_api_version)
                     THEN RestoreOrDelete(@, "INSTAGRAM_GRAPH_API_VERSION",
                                          original_version, TRUE)
                     ELSE @],
                 IF req.exc # "none" THEN ToolResult(FALSE, "Failed to create post", "none")
                 ELSE ToolResult(TRUE, "", "data"),
                 req.token, FALSE)
            : req \in {Server_make_api_request(
                           IF Truthy(graph_api_version)
                           THEN [w EXCEPT !.env = Setenv(@, "INSTAGRAM_GRAPH_API_VERSION",
                                                         graph_api_version)]
                           ELSE w,
                           configured, ok, t)} })

ConversationTools == {"INSTAGRAM_GET_CONVERSATION", "INSTAGRAM_GET_CONVERSATIONS"}

InitVersion ==
    /\ \E f \in MsgFiles : fs = f.fs /\ fd = f.fd
    /\ \E e \in MsgEnvs, v \in VersionEnvs :
          env = Setenv(e, "INSTAGRAM_GRAPH_API_VERSION", v)
    /\ oauth2 = FALSE
    /\ now = StartTime
    /\ last = Op("start", "-", Fresh, EmptyDict, "-", NoCall, NoPageCall, "none", None, "none")
    /\ poll = Idle
    /\ threads = NoThreads

\* What a call with a version argument did.
VersionOp(impl, pre, pa, graph_api_version, r) ==
    [op |-> "versioned", impl |-> impl, pre |-> pre, tokens |-> EmptyDict, prov |-> "-",
     ta |-> NoCall, pa |-> pa, io |-> "none", result |-> r.result, exc |-> "none",
     graph_api_version |-> graph_api_version, sent |-> r.sent]

\* INSTAGRAM_GET_CONVERSATION or INSTAGRAM_GET_CONVERSATIONS is called, for the
\* Instagram user id "ig1".
CallConversationTool ==
    \E tool \in ConversationTools, pa \in PageAnswers, reply \in Replies,
       graph_api_version \in VersionArgs :
    \E page_info \in {Server_get_page_for_ig_account(Current, oauth2, "ig1", pa, now)} :
    \E r \in {Server_GET_CONVERSATION(Current, oauth2, graph_api_version, page_info,
                                      reply, now)} :
        /\ Install(r.w)
        /\ last' = VersionOp(tool, Current, IF r.asked THEN pa ELSE NoPageCall,
                             graph_api_version, r)
        /\ UNCHANGED <<oauth2, now, poll, threads>>

\* INSTAGRAM_CREATE_POST sends one of its requests.
CreatePostRequest ==
    \E ok \in BOOLEAN, graph_api_version \in VersionArgs :
    \E r \in {Server_versioned_request(Current, oauth2, graph_api_version, ok, now)} :
        /\ Install(r.w)
        /\ last' = VersionOp("INSTAGRAM_CREATE_POST", Current, NoPageCall,
                             graph_api_version, r)
        /\ UNCHANGED <<oauth2, now, poll, threads>>

NextVersion ==
    \/ CallConversationTool
    \/ CreatePostRequest

SpecVersion == InitVersion /\ [][NextVersion]_vars

-----------------------------------------------------------------------------
(* Claims about the Graph API version override *)

IsVersioned == last.op = "versioned"

\* C29: after a tool that accepts graph_api_version returns, with a result or
\* with a failure, INSTAGRAM_GRAPH_API_VERSION has the value it had before the
\* call, and is unset if it was unset.
C29_VersionRestored ==
    IsVersioned =>
        env["INSTAGRAM_GRAPH_API_VERSION"] = last.pre.env["INSTAGRAM_GRAPH_API_VERSION"]


-----------------------------------------------------------------------------
(* Two tool invocations on two threads: a messaging call and a content call *)

\* A finally block that leaves the substituted token in place.
Tools_restore_token_Skipped(e, original_token) == e

\* tools/messaging.py get_conversation, its finally block
Tools_restore_token(e, original_token) ==
    RestoreOrDelete(e, "INSTAGRAM_ACCESS_TOKEN", original_token, TRUE)

\* The messaging call m is get_conversation of tools/messaging.py; the content
\* call c is one make_api_request of the client.  Each line of m that reads or
\* writes os.environ is a step; c resolves its token, then sends.
RaceThreads ==
    [m |-> [pc |-> "start", page_access_token |-> None, original_token |-> None,
            sent |-> None, successful |-> FALSE],
     c |-> [pc |-> "resolve", token |-> None, sent |-> None, during |-> FALSE]]

InitRace ==
    /\ \E f \in PageFiles : fs = f.fs /\ fd = f.fd
    /\ env \in MsgEnvs
    /\ oauth2 = FALSE
    /\ now = StartTime
    /\ last = Op("start", "-", Fresh, EmptyDict, "-", NoCall, NoPageCall, "none", None, "none")
    /\ poll = Idle
    /\ threads = RaceThreads

\* page_info = get_page_for_ig_account(ig_user_id), and the two checks after it
MsgResolvePage ==
    /\ threads.m.pc = "start"
    /\ \E pa \in PageAnswers :
       \E page_info \in {Client_get_page_for_ig_account(Current, oauth2, "ig1", pa, "ok", now)} :
           /\ Install(page_info.w)
           /\ threads' = [threads EXCEPT
                 !.m.pc = IF Truthy(page_info.page_id) /\ Truthy(page_info.page_access_token)
                          THEN "read" ELSE "done",
                 !.m.page_access_token = page_info.page_access_token]
    /\ UNCHANGED <<oauth2, now, last, poll>>

\* original_token = os.environ.get("INSTAGRAM_ACCESS_TOKEN")
MsgReadOriginal ==
    /\ threads.m.pc = "read"
    /\ threads' = [threads EXCEPT !.m.pc = "set",
                                  !.m.original_token = Getenv(env, "INSTAGRAM_ACCESS_TOKEN")]
    /\ UNCHANGED <<fs, fd, env, oauth2, now, last, poll>>

\* os.environ["INSTAGRAM_ACCESS_TOKEN"] = page_access_token
MsgSubstitute ==
    /\ threads.m.pc = "set"
    /\ env' = Setenv(env, "INSTAGRAM_ACCESS_TOKEN", threads.m.page_access_token)
    /\ threads' = [threads EXCEPT !.m.pc = "request"]
    /\ UNCHANGED <<fs, fd, oauth2, now, last, poll>>

\* response = make_api_request("GET", conversation_id, params=params)
MsgRequest ==
    /\ threads.m.pc = "request"
    /\ \E ok \in BOOLEAN :
       \E req \in {Client_make_api_request(Current, oauth2, ok, now)} :
           /\ Install(req.w)
           /\ threads' = [threads EXCEPT !.m.pc = "restore", !.m.sent = req.token,
                                         !.m.successful = req.exc = "none"]
    /\ UNCHANGED <<oauth2, now, last, poll>>

\* finally: restore or delete INSTAGRAM_ACCESS_TOKEN
MsgRestore ==
    /\ threads.m.pc = "restore"
    /\ env' = Tools_restore_token(env, threads.m.original_token)
    /\ threads' = [threads EXCEPT !.m.pc = "done"]
    /\ UNCHANGED <<fs, fd, oauth2, now, last, poll>>

\* The substitution is in force: m has written the page token and not yet restored.
Substituted == threads.m.pc \in {"request", "restore"}

\* access_token = self.get_access_token(), first line of the content call's
\* make_api_request
ContentResolve ==
    /\ threads.c.pc = "resolve"
    /\ \E g \in {Client_get_access_token(Current, FALSE, "none", oauth2, NoCall, "none", now)} :
           /\ Install(g.w)
           /\ threads' = [threads EXCEPT !.c.pc = IF g.result = Raise THEN "done" ELSE "send",
                                         !.c.token = g.result,
                                         !.c.during = Substituted]
    /\ UNCHANGED <<oauth2, now, last, poll>>

\* requests.get(url, params=params, timeout=30) with params["access_token"]
ContentSend ==
    /\ threads.c.pc = "send"
    /\ threads' = [threads EXCEPT !.c.pc = "done", !.c.sent = threads.c.token]
    /\ UNCHANGED <<fs, fd, env, oauth2, now, last, poll>>

NextRace ==
    \/ MsgResolvePage
    \/ MsgReadOriginal
    \/ MsgSubstitute
    \/ MsgRequest
    \/ MsgRestore
    \/ ContentResolve
    \/ ContentSend

SpecRace == InitRace /\ [][NextRace]_vars

-----------------------------------------------------------------------------
(* Claims about two tool invocations on two threads *)

\* C24: a content call interleaved with a messaging call can send its request
\* with the page token the messaging call put into INSTAGRAM_ACCESS_TOKEN; it
\* does so exactly when it resolves its token while the substitution is in
\* force, and never when it resolves before the substitution or after the
\* restore.
C24_PageTokenLeaks ==
    threads.c.sent # None =>
        (threads.c.sent = threads.m.page_access_token <=> threads.c.during)

\* The content call has sent its request with the page token of the messaging
\* call although the store holds the user token "A", and the messaging call
\* has restored the variable and returned.
C24_Witness ==
    /\ threads.c.pc = "done" /\ threads.m.pc = "done"
    /\ Truthy(threads.m.page_access_token)
    /\ threads.c.sent = threads.m.page_access_token
    /\ threads.m.successful
    /\ fs = "ok" /\ Get(fd, "access_token") = "A"
    /\ env["INSTAGRAM_ACCESS_TOKEN"] = Unset


-----------------------------------------------------------------------------
(* Two saves of the token file on two threads *)

\* What the two threads save: partial dicts with no key in common, of values
\* that no token file has yet.
SavePairs ==
    { <<[refresh_token |-> "R2"], [page_access_token |-> "X2"]>>,
      <<[access_token |-> "B", expires_in |-> DefaultLongLived],
        [page_access_token |-> "X2", facebook_page_id |-> "pg1"]>> }

SaveThreadNames == {"a", "b"}
Other(th) == IF th = "a" THEN "b" ELSE "a"

\* One _save_tokens call: existing is the file as its _load_tokens read it,
\* afterOther says that the other call had returned by then.
SaveThread(tokens) ==
    [pc |-> "load", tokens |-> tokens, existing |-> [fs |-> "missing", fd |-> EmptyDict],
     afterOther |-> FALSE]

InitLostUpdate ==
    /\ \E f \in InitFiles : fs = f.fs /\ fd = f.fd
    /\ env = NoEnv
    /\ oauth2 = FALSE
    /\ now = StartTime + 1
    /\ last = Op("start", "-", Fresh, EmptyDict, "-", NoCall, NoPageCall, "none", None, "none")
    /\ poll = Idle
    /\ \E impl \in {"client", "server"}, pair \in SavePairs :
          threads = [impl |-> impl, a |-> SaveThread(pair[1]), b |-> SaveThread(pair[2]),
                     lastDump |-> "-"]

\* existing = _load_tokens(): the thread reads the file as it is now.
SaveLoad(th) ==
    /\ threads[th].pc = "load"
    /\ threads' = [threads EXCEPT ![th].pc = "open",
                                  ![th].existing = [fs |-> fs, fd |-> fd],
                                  ![th].afterOther = threads[Other(th)].pc = "done"]
    /\ UNCHANGED <<fs, fd, env, oauth2, now, last, poll>>

\* open(token_file, 'w'): the file is truncated; until json.dump has written,
\* a reader finds a file that does not parse.
SaveOpen(th) ==
    /\ threads[th].pc = "open"
    /\ fs' = "corrupt"
    /\ fd' = EmptyDict
    /\ threads' = [threads EXCEPT ![th].pc = "dump"]
    /\ UNCHANGED <<env, oauth2, now, last, poll>>

\* json.dump(existing, f): the thread writes what it loaded, merged with its
\* tokens, and (in the server) mirrors its tokens into the environment.
SaveDump(th) ==
    /\ threads[th].pc = "dump"
    /\ \E seen \in {[Current EXCEPT !.fs = threads[th].existing.fs,
                                    !.fd = threads[th].existing.fd]} :
       \E r \in {IF threads.impl = "client"
                 THEN Client_save_tokens(seen, threads[th].tokens, "ok", now)
                 ELSE Server_save_tokens(seen, threads[th].tokens, "ok", now)} :
           Install(r.w)
    /\ threads' = [threads EXCEPT ![th].pc = "done", !.lastDump = th]
    /\ UNCHANGED <<oauth2, now, last, poll>>

NextLostUpdate ==
    \/ \E th \in SaveThreadNames : SaveLoad(th)
    \/ \E th \in SaveThreadNames : SaveOpen(th)
    \/ \E th \in SaveThreadNames : SaveDump(th)

SpecLostUpdate == InitLostUpdate /\ [][NextLostUpdate]_vars

-----------------------------------------------------------------------------
(* Claims about two concurrent saves *)

BothSaved == threads.a.pc = "done" /\ threads.b.pc = "done"

\* The token file holds every field of what thread th saved.
Holds(th) ==
    /\ fs = "ok"
    /\ \A k \in DOMAIN threads[th].tokens : Get(fd, k) = threads[th].tokens[k]

\* C25: _save_tokens reads, merges and rewrites the whole file without a lock:
\* after two saves of disjoint fields the file holds the fields of the save
\* that wrote last, and those of the other save exactly when the one that wrote
\* last had loaded the file after the other returned; so saves made one after
\* the other keep both, and an interleaving loses the fields of one.
C25_LastWriteWins ==
    BothSaved =>
        /\ Holds(threads.lastDump)
        /\ Holds(Other(threads.lastDump)) <=> threads[threads.lastDump].afterOther

\* Both saves have returned and the file has the fields of b only.
C25_Witness ==
    /\ BothSaved
    /\ Holds("b") /\ ~Holds("a")
    /\ threads.b.tokens = [page_access_token |-> "X2"]
    /\ "refresh_token" \notin DOMAIN fd

-----------------------------------------------------------------------------
(* Claims about the order of the saves in the code exchange *)

\* The exchange obtained a token and its first save was written.
FirstSavePersisted ==
    /\ IsExchange
    /\ oauth2 /\ last.ca.ok /\ "access_token" \in DOMAIN last.ca.body
    /\ last.io = "ok"

\* C31: in _exchange_oauth2_code the final access token and its expires_in are
\* in the store before the page lookup is attempted, and a failure of the lookup
\* or of saving its result is not propagated: the token data is returned and
\* the store still holds the access token and expires_in that were written.
C31_TokenSurvivesPageStep ==
    FirstSavePersisted =>
        /\ last.exc = "none"
        /\ "access_token" \in DOMAIN last.tokens
        /\ Get(Record, "access_token") = last.tokens["access_token"]
        /\ Get(Record, "expires_in") = Get(last.tokens, "expires_in")

-----------------------------------------------------------------------------
(* The life of a stored token: exchanges, refreshes and resolutions in turn *)

\* What an earlier setup run left: nothing, or the token A of one hour with its
\* refresh token and the page binding, saved at StartTime by the server's store.
LifeFiles ==
    {Fresh,
     Server_save_tokens(Fresh,
                        Update([access_token |-> "A", expires_in |-> 3600,
                                refresh_token |-> "R"], PageBinding),
                        "ok", StartTime).w}

\* The operator set the refresh token in the environment or did not.
LifeEnvs ==
    { [NoEnv EXCEPT !["INSTAGRAM_OAUTH_REFRESH_TOKEN"] = r] : r \in {Unset, "R2"} }

\* The stored token of LifeFiles has expired for both resolvers.
InitLife ==
    /\ \E f \in LifeFiles : fs = f.fs /\ fd = f.fd
    /\ env \in LifeEnvs
    /\ oauth2 \in BOOLEAN
    /\ now = StartTime + 4000
    /\ last = Op("start", "-", Fresh, EmptyDict, "-", NoCall, NoPageCall, "none", None, "none")
    /\ poll = Idle
    /\ threads = NoThreads

\* InstagramClient._refresh_token(refresh_token) called on a starting store
ClientRefreshToken ==
    /\ last.op = "start"
    /\ \E ta \in TokenAnswersIf(oauth2) :
       \E io \in IoOutcomesIf(ta) :
       \E r \in {Client_refresh_token(Current, oauth2, "R", ta, io, now)} :
           /\ Install(r.w)
           /\ last' = Op("refresh", "client", Current, EmptyDict, "-",
                         r.ta, r.pa, r.io, r.result, r.exc)
           /\ UNCHANGED <<oauth2, now, poll, threads>>

\* _refresh_oauth2_token(refresh_token) called on a starting store
ServerRefreshOauth2Token ==
    /\ last.op = "start"
    /\ \E ta \in TokenAnswersIf(oauth2) :
       \E pa \in PageAnswersIf(ta), io \in IoOutcomesIf(ta) :
       \E r \in {Server_refresh_oauth2_token(Current, oauth2, "R", ta, pa, io, now)} :
           /\ Install(r.w)
           /\ last' = Op("refresh", "server", Current, EmptyDict, "-",
                         r.ta, r.pa, r.io, r.result, r.exc)
           /\ UNCHANGED <<oauth2, now, poll, threads>>

\* A setup run exchanges its code or a refresh is called; the resolvers then
\* run any number of times, refreshing as they find the token expired.
NextLife ==
    \/ ServerExchangeCode
    \/ ClientRefreshToken
    \/ ServerRefreshOauth2Token
    \/ ClientGetAccessToken
    \/ ServerGetAccessToken

SpecLife == InitLife /\ [][NextLife]_vars

-----------------------------------------------------------------------------
(* Claims about a refresh that fails *)

IsRefresh == last.op = "refresh"

\* The refresh did not get an answer: client id or secret missing (no request
\* is made), or the request failed with a transport or HTTP error.
RefreshCallFailed ==
    /\ IsRefresh
    /\ ~oauth2 \/ (last.ta.called /\ ~last.ta.ok)

\* C32: a refresh whose request fails, or that has no client id or secret,
\* returns null without raising and leaves the store (access_token, expires_in,
\* saved-at timestamp, refresh_token, page binding) and the environment exactly
\* as they were before the call.
C32_FailedRefreshChangesNothing ==
    RefreshCallFailed =>
        /\ last.result = None
        /\ last.exc = "none"
        /\ Current = last.pre

\* The server's refresh failed at the token endpoint over a store that holds
\* the expired token, its refresh token and the page binding.
C32_Witness ==
    /\ RefreshCallFailed /\ last.impl = "server"
    /\ last.ta.called
    /\ Get(Record, "access_token") = "A" /\ Get(Record, "refresh_token") = "R"
    /\ Get(Record, "page_access_token") = "X"
    /\ Get(Record, SavedAt) = StartTime

-----------------------------------------------------------------------------
(* Claims about when the wall-clock pollers publish *)

\* C33: in the wall-clock pollers a publish call is issued in an invocation
\* only if the most recent status response received in that invocation was
\* FINISHED, and at most one publish call is issued per invocation, for every
\* sequence of status responses and every max_wait_seconds and
\* poll_interval_seconds.
C33_PublishOnlyAfterFinished ==
    poll.pk \in WallClockPollers =>
        /\ poll.publishCalls <= 1
        /\ (poll.publishCalls = 1 \/ poll.pc = "publish") => poll.lastStatus = "FINISHED"

\* The server's poller saw IN_PROGRESS until its loop ran out, read FINISHED in
\* the final check and published.
C33_Witness ==
    /\ poll.pk = "INSTAGRAM_POST_IG_USER_MEDIA_PUBLISH"
    /\ poll.pc = "done" /\ poll.publishCalls = 1
    /\ poll.inProgressPrefix = poll.max_retries /\ poll.max_retries >= 1
    /\ poll.statusCalls = poll.max_retries + 1
    /\ poll.lastStatus = "FINISHED"

\* post_ig_user_media_publish returned one of its two timeout failures.
ToolsTimedOut ==
    /\ poll.pk = "post_ig_user_media_publish"
    /\ poll.pc = "done"
    /\ ~poll.result.successful
    /\ poll.result.error \in {"Timeout after", "did not finish processing within"}

\* C34: for every positive max_wait_seconds and positive poll_interval_seconds,
\* a poll_interval_seconds greater than the capped budget included,
\* post_ig_user_media_publish issues at least one status call before it returns
\* a timeout failure.
C34_NoTimeoutWithoutLooking ==
    (ToolsTimedOut /\ poll.max_wait_seconds > 0 /\ poll.poll_interval_seconds > 0)
        => poll.statusCalls >= 1

-----------------------------------------------------------------------------
(* Claims about the resolver and the store after a refresh *)

\* get_access_token went down the store path: no provider or direct token, and
\* the store had a token.
StorePath ==
    /\ IsGet
    /\ NoProviderToken
    /\ PreDirect = Unset
    /\ PreStoreHasToken

\* C35: whenever get_access_token returns a token through the store path, the
\* token it returns is the store's access_token at the moment it returns, for
\* every outcome of the refresh attempt and of the page lookup and the save
\* that the refresh performs.
C35_ReturnedTokenInStore ==
    StorePath => last.result = Get(Record, "access_token")

\* The store held a page binding before the last operation / holds one now.
PreBound ==
    Truthy(Get(PreRecord, "page_access_token")) /\ Truthy(Get(PreRecord, "facebook_page_id"))
Bound ==
    Truthy(Get(Record, "page_access_token")) /\ Truthy(Get(Record, "facebook_page_id"))

\* The last operation was a code exchange or a refresh of the server module,
\* the refresh called directly or by the resolver.
ExchangedOrRefreshed ==
    \/ IsExchange
    \/ IsRefresh /\ last.impl = "server"
    \/ IsGet /\ last.impl = "server" /\ last.ta.called

\* C36: after any sequence of code exchanges and refreshes, a store that held a
\* non-empty page_access_token and facebook_page_id still holds non-empty
\* values for both; a page lookup that returns a page without an access token
\* or id never replaces the stored values with null.  Stated for a token file
\* that still parses after the operation: a file cut short by a failed write
\* holds nothing at all.
C36_PageBindingNeverNulled ==
    (ExchangedOrRefreshed /\ PreBound /\ fs = "ok") => Bound

-----------------------------------------------------------------------------
(* The expiry verdict across saves that carry no access token *)

\* client.py get_instagram_user_id called without an id and with
\* INSTAGRAM_USER_ID unset: the stored id, else GET me/accounts and the first
\* page with an Instagram account, whose id is saved.  An exception of the
\* request or of the save is caught and ValueError is raised in the end.
Client_get_instagram_user_id(w, configured, pa, io, t) ==
    LET stored == Client_load_tokens(w)
        pages == pa.pages
        withIg == {i \in 1..Len(pages) : Truthy(Get(pages[i], "instagram_business_account"))}
        first == CHOOSE i \in withIg : \A j \in withIg : i <= j
    IN  IF Truthy(Get(stored, "instagram_user_id"))
        THEN [w |-> w, result |-> stored["instagram_user_id"], asked |-> FALSE, io |-> "none"]
        ELSE The({
            IF req.exc # "none" \/ withIg = {}
            THEN [w |-> req.w, result |-> Raise, asked |-> req.exc # "RuntimeError",
                  io |-> "none"]
            ELSE [w |-> Client_save_tokens(
                            req.w,
                            [instagram_user_id |-> pages[first]["instagram_business_account"]],
                            io, t).w,
                  result |-> IF io = "ok" THEN pages[first]["instagram_business_account"]
                             ELSE Raise,
                  asked |-> TRUE, io |-> io]
            : req \in {Client_make_api_request(w, configured, pa.ok, t)} })

\* The token files of an earlier run: the token A of one hour or of sixty days,
\* saved at StartTime by either store.
StampFiles ==
    {Client_save_tokens(Fresh, [access_token |-> "A", expires_in |-> e], "ok", StartTime).w
        : e \in {ShortLivedDefault, DefaultLongLived}}
    \cup
    {Server_save_tokens(Fresh, [access_token |-> "A", expires_in |-> e], "ok", StartTime).w
        : e \in {ShortLivedDefault, DefaultLongLived}}

\* The instants of Offsets and of ExpiryOffsets: around the client's buffer of
\* the one-hour token and around the server's buffer of the sixty-day token.
StampOffsets == Offsets \cup ExpiryOffsets

\* A process without OAuth2 client credentials (no refresh can save a new
\* access token) starts at one of the instants.
InitStamp ==
    /\ \E f \in StampFiles : fs = f.fs /\ fd = f.fd
    /\ env = NoEnv
    /\ oauth2 = FALSE
    /\ now \in {StartTime + o : o \in StampOffsets}
    /\ last = Op("start", "-", Fresh, EmptyDict, "-", NoCall, NoPageCall, "none", None, "none")
    /\ poll = Idle
    /\ threads = NoThreads

\* One auto-detection of the user id is made in each starting state.
ClientGetInstagramUserId ==
    \E pa \in PageListAnswers, io \in IoOutcomes :
    \E r \in {Client_get_instagram_user_id(Current, oauth2, pa, io, now)} :
        /\ last.op = "start"
        /\ Install(r.w)
        /\ last' = PageOp("get_instagram_user_id", "client", Current, "-",
                          IF r.asked THEN pa ELSE NoPageCall, r.io, r.result)
        /\ UNCHANGED <<oauth2, now, poll, threads>>

\* time passes, to one of the later instants
StampTick ==
    /\ \E o \in StampOffsets : StartTime + o > now /\ now' = StartTime + o
    /\ last' = Op("tick", "-", Current, EmptyDict, "-", NoCall, NoPageCall, "none", None, "none")
    /\ UNCHANGED <<fs, fd, env, oauth2, poll, threads>>

NextStamp ==
    \/ ClientGetInstagramUserId
    \/ ClientGetPageForIgAccount
    \/ ServerSaveTokens
    \/ ClientIsTokenExpired
    \/ ServerIsTokenExpired
    \/ StampTick

SpecStamp == InitStamp /\ [][NextStamp]_vars

\* The last step saved an access_token.
AccessTokenSaved == IsSave /\ "access_token" \in DOMAIN last.tokens

\* C37: once the stored token is judged expired by _is_token_expired, it stays
\* judged expired at every later time until a save containing access_token
\* occurs; saves of only instagram_user_id, page_access_token or
\* facebook_page_id never turn an expired token into a non-expired one.  Stated
\* for steps after which the token file still parses.
C37_ExpiryVerdictStable ==
    [][ (fs' = "ok" /\ ~AccessTokenSaved') =>
            /\ Client_is_token_expired(Current, now) => Client_is_token_expired(Current', now')
            /\ Server_is_token_expired(Current, now) => Server_is_token_expired(Current', now')
      ]_vars

-----------------------------------------------------------------------------
(* Claims about the first resolution after a token was stored *)

\* get_access_token runs, on the store path, over a token that an exchange or
\* a refresh stored at this very instant with a positive expires_in.
JustStored ==
    /\ StorePath
    /\ SavedAt \in DOMAIN PreRecord /\ PreRecord[SavedAt] = now
    /\ "expires_in" \in DOMAIN PreRecord /\ PreRecord["expires_in"] > 0

\* C38: immediately after a successful code exchange or refresh has stored a
\* token with saved-at timestamp = now and any positive expires_in (the
\* 3600-second short-lived fallback included), the next get_access_token call
\* at the same time judges the token not expired, returns the stored token and
\* issues no refresh request.
C38_NoRefreshStorm ==
    JustStored =>
        /\ ~PreExpired
        /\ last.result = PreRecord["access_token"]
        /\ ~last.ta.called

-----------------------------------------------------------------------------
(* Two messaging calls of tools/messaging.py running at once *)

\* g is a get_conversation call and s a send_text_message call, on two threads
\* of one process; before is INSTAGRAM_ACCESS_TOKEN when the first of them
\* started.  Each line that reads or writes os.environ is a step.  The
\* Instagram user id is "ig1", as for CallMessagingTool.
MsgPair(before) ==
    [g |-> [pc |-> "start", page_access_token |-> None, original_token |-> None],
     s |-> [pc |-> "start", page_access_token |-> None, original_token |-> None],
     before |-> before]

InitMsgPair ==
    /\ \E f \in MsgFiles : fs = f.fs /\ fd = f.fd
    /\ env \in MsgEnvs
    /\ oauth2 = FALSE
    /\ now = StartTime
    /\ last = Op("start", "-", Fresh, EmptyDict, "-", NoCall, NoPageCall, "none", None, "none")
    /\ poll = Idle
    /\ threads = MsgPair(Getenv(env, "INSTAGRAM_ACCESS_TOKEN"))

\* page_info = get_page_for_ig_account(user_id) and the checks after it:
\* get_conversation wants the page id and the page token, send_text_message
\* the page token only.
PairResolvePage(th) ==
    /\ threads[th].pc = "start"
    /\ \E pa \in PageAnswers :
       \E page_info \in {Client_get_page_for_ig_account(Current, oauth2, "ig1", pa, "ok", now)} :
           /\ Install(page_info.w)
           /\ threads' = [threads EXCEPT
                 ![th].pc = IF /\ Truthy(page_info.page_access_token)
                               /\ (th = "g" => Truthy(page_info.page_id))
                            THEN "read" ELSE "done",
                 ![th].page_access_token = page_info.page_access_token]
    /\ UNCHANGED <<oauth2, now, last, poll>>

\* original_token = os.environ.get("INSTAGRAM_ACCESS_TOKEN")
PairReadOriginal(th) ==
    /\ threads[th].pc = "read"
    /\ threads' = [threads EXCEPT ![th].pc = "set",
                                  ![th].original_token = Getenv(env, "INSTAGRAM_ACCESS_TOKEN")]
    /\ UNCHANGED <<fs, fd, env, oauth2, now, last, poll>>

\* os.environ["INSTAGRAM_ACCESS_TOKEN"] = page_access_token
PairSubstitute(th) ==
    /\ threads[th].pc = "set"
    /\ env' = Setenv(env, "INSTAGRAM_ACCESS_TOKEN", threads[th].page_access_token)
    /\ threads' = [threads EXCEPT ![th].pc = "request"]
    /\ UNCHANGED <<fs, fd, oauth2, now, last, poll>>

\* response = make_api_request(...), which succeeds or raises
PairRequest(th) ==
    /\ threads[th].pc = "request"
    /\ \E ok \in BOOLEAN :
       \E req \in {Client_make_api_request(Current, oauth2, ok, now)} :
           /\ Install(req.w)
           /\ threads' = [threads EXCEPT ![th].pc = "restore"]
    /\ UNCHANGED <<oauth2, now, last, poll>>

\* finally: restore or delete INSTAGRAM_ACCESS_TOKEN
PairRestore(th) ==
    /\ threads[th].pc = "restore"
    /\ env' = Tools_restore_token(env, threads[th].original_token)
    /\ threads' = [threads EXCEPT ![th].pc = "done"]
    /\ UNCHANGED <<fs, fd, oauth2, now, last, poll>>

NextMsgPair ==
    \E th \in {"g", "s"} :
        \/ PairResolvePage(th)
        \/ PairReadOriginal(th)
        \/ PairSubstitute(th)
        \/ PairRequest(th)
        \/ PairRestore(th)

SpecMsgPair == InitMsgPair /\ [][NextMsgPair]_vars

\* C39: when two messaging calls of tools/messaging.py run concurrently in one
\* process and both have returned, INSTAGRAM_ACCESS_TOKEN has exactly the value
\* it had before the first of them started (unset if it was unset), for every
\* interleaving of their save-original, substitute and restore steps.
C39_EnvRestoredAfterConcurrentCalls ==
    (threads.g.pc = "done" /\ threads.s.pc = "done")
        => Getenv(env, "INSTAGRAM_ACCESS_TOKEN") = threads.before

====
